---- MODULE Spec2Model ----
(***************************************************************************)
(* log-kv: the log-structured engine KvStore (src/engine/kvs.rs), the      *)
(* shared-queue worker pool (src/thread_pool/shared_queue.rs), the server  *)
(* and its connection job (src/network/server.rs), the client              *)
(* (src/network/client.rs) and the single-handle KvStore of src/lib.rs.    *)
(*                                                                         *)
(* The log file is modelled as the sequence of the records written to it;  *)
(* a record occupies SerLen(op) bytes, the length of its serde_json text,  *)
(* and byte offsets are computed from these lengths.  Decoding at a byte   *)
(* offset yields the record that starts there, and fails anywhere else.    *)
(***************************************************************************)
EXTENDS Integers, Sequences, FiniteSets, TLC

\* ------------------------------------------------------------------------
\* Bounds of the model
\* ------------------------------------------------------------------------
\* Number of set/remove/get calls made in one behaviour when the threads
\* share all keys.
MaxOps == 3
\* Number of calls made in one behaviour when every key has one caller
\* (disjoint key sets, or a single caller).
MaxOwnOps == 4
\* Byte length of the long value "BIG": Set{"a","BIG"} is exactly 1 MiB long.
BigLen == 1048546

\* The handles (threads) that share the store.
Threads == {"t1", "t2"}
\* The thread that makes the calls of the sequential specification.
MainThread == "t1"
\* Keys in BTreeMap (lexicographic) order, and the values written.
KeyOrder == <<"a", "bb">>
Keys == {KeyOrder[i] : i \in 1..Len(KeyOrder)}
Values == {"x", "BIG"}
\* The keys a thread uses when the threads work on disjoint key sets.
KeysOf(t) == IF t = "t1" THEN {"a"} ELSE {"bb"}

\* ------------------------------------------------------------------------
\* Engine: records, offsets, the log file (src/engine/kvs.rs)
\* ------------------------------------------------------------------------
REDUNDANT_SIZE_LIMIT == 1024 * 1024

\* String::len of the strings of the model.
StrLen(s) == IF s = "BIG" THEN BigLen ELSE IF s = "bb" THEN 2 ELSE 1

SetOp(k, v) == [type |-> "Set", key |-> k, value |-> v]
RmOp(k) == [type |-> "Rm", key |-> k, value |-> ""]

\* Bytes in the file that are no record: the first bytes of a record whose
\* write_all failed in the middle, and a JSON document that is no Op.
\* Neither decodes as an Op, alone or with the bytes that follow it.
PartOp(op) == [type |-> "Part", key |-> op.key, value |-> op.value]
BadOp == [type |-> "Bad", key |-> "", value |-> ""]
Decodes(op) == op.type \in {"Set", "Rm"}

\* serde_json::to_string(&op).len():  {"Set":{"key":"k","value":"v"}}  and
\* {"Rm":{"key":"k"}}; of a record cut short, the first byte is taken; the
\* document that is no Op is {"Foo":1}.
SerLen(op) ==
  IF op.type = "Set" THEN 29 + StrLen(op.key) + StrLen(op.value)
  ELSE IF op.type = "Rm" THEN 17 + StrLen(op.key)
  ELSE IF op.type = "Part" THEN 1
  ELSE 9

new_offset(start, end) == [start |-> start, end |-> end]
OffsetLen(o) == o.end - o.start

\* Byte offset at which the i-th record of file f starts.
RECURSIVE StartOf(_, _)
StartOf(f, i) == IF i <= 1 THEN 0 ELSE StartOf(f, i - 1) + SerLen(f[i - 1])

\* Length of the file in bytes: SeekFrom::End(0) / stream_position at the end.
FileLen(f) == StartOf(f, Len(f) + 1)

\* The result of decoding one Op from byte offset pos of file f.
NoRecord == [type |-> "None", key |-> "", value |-> ""]
DecodeAt(f, pos) ==
  IF \E i \in 1..Len(f) : StartOf(f, i) = pos
  THEN f[CHOOSE i \in 1..Len(f) : StartOf(f, i) = pos]
  ELSE NoRecord

\* BTreeMap::insert / remove on a map modelled as a function on its keys.
MapInsert(m, k, x) == [y \in DOMAIN m \cup {k} |-> IF y = k THEN x ELSE m[y]]
MapRemove(m, k) == [y \in DOMAIN m \ {k} |-> m[y]]
EmptyMap == [y \in {} |-> 0]

\* The elements of a sequence.
Range(q) == {q[i] : i \in DOMAIN q}

\* Results of the calls.
Ok == <<"Ok">>
NoneRes == <<"None">>
Some(v) == <<"Some", v>>
Err(e) == <<"Err", e>>
NoRes == <<>>

VARIABLES
  log,            \* content of the log file at fp
  index,          \* KvStoreInner.index
  redundant_size, \* KvStoreInner.redundant_size
  mutex,          \* "free", the thread holding it, or "poisoned"
  pc,             \* position of each thread in its call
  arg,            \* the call each thread is making
  res,            \* the result the call returns
  off,            \* set: (start, end) captured around the write
  keep,           \* compact: records still to be written to the new file
  new_index,      \* compact: index of the new file
  kv,             \* history: the atomic key-value map
  absres,         \* history: result of the call on the atomic map
  own,            \* history: map of the thread's own writes in program order
  expect,         \* history: result of the call in the thread's own order
  pre,            \* history: get results when the compaction took the mutex
  reopened,       \* history: the store was dropped and opened again
  nops            \* number of calls made

engineVars == <<log, index, redundant_size, mutex, pc, arg, res, off, keep,
                new_index, kv, absres, own, expect, pre, reopened, nops>>

\* The worker pool (src/thread_pool/shared_queue.rs)
VARIABLES
  threads,        \* the argument of new
  queue,          \* the messages in the channel, oldest first
  worker,         \* position of each worker thread in run_worker
  wjob,           \* the job each worker is running
  ppc,            \* position of the thread that owns the pool
  sent,           \* drop: Terminate messages sent so far
  joined,         \* drop: handles joined so far
  passed,         \* history: number of jobs passed to spawn
  runs,           \* history: how many times each job was started
  finished,       \* history: the jobs that ran to their end or panicked
  panicked        \* history: the jobs that panicked

poolVars == <<threads, queue, worker, wjob, ppc, sent, joined, passed, runs,
              finished, panicked>>

\* The server (src/network/server.rs) and the clients' ends of the connections
VARIABLES
  apc,            \* position of the acceptor thread in its loop
  hpc,            \* position of the owner of the ShutdownHandle
  shutdown_init,  \* messages in the shutdown_init channel
  stream_shutdown, \* messages in the stream_shutdown channel
  backlog,        \* connections made and not yet accepted, oldest first
  jobq,           \* connection jobs spawned and not yet started
  cstate,         \* state of each connection
  jpc,            \* position of each connection job in run
  inflight,       \* documents sent by the client and not yet read by the job
  eof,            \* the client has closed its end
  cur,            \* run: the request decoded
  resp,           \* run: the response built
  out,            \* the responses written to the stream
  store,          \* the engine shared by the connection jobs
  nsent,          \* history: documents sent by each client
  nread,          \* history: documents read by each connection job
  why,            \* history: how each connection job ended
  after,          \* history: the connections closed when this one was made
  late,           \* history: connections accepted after the signal was sent
  signalled       \* history: the jobs in progress when the signal was received

serverVars == <<apc, hpc, shutdown_init, stream_shutdown, backlog, jobq,
                cstate, jpc, inflight, eof, cur, resp, out, store, nsent,
                nread, why, after, late, signalled>>

\* A KvsClient (src/network/client.rs) and the other end of its connection
VARIABLES
  kpc,            \* position of the caller in get / set / remove
  kreq,           \* send_request: the request sent
  wire,           \* the pieces that have arrived and were not yet read
  flight,         \* the pieces sent by the other end that have not yet arrived
  kdoc,           \* send_request: the response decoded from the bytes read
  kgot,           \* the response send_request returned
  kres,           \* the result of the call
  remote,         \* the map of the engine behind the server at the other end
  ans,            \* history: who answered the call, and was the key absent
  ncalls          \* number of calls made

clientVars == <<kpc, kreq, wire, flight, kdoc, kgot, kres, remote, ans,
                ncalls>>

\* The directory of the store and its disk
VARIABLES
  opened,         \* the result of KvStore::open
  replayed,       \* history: the redundant_size open computed from the log
  faults          \* number of I/O operations that have failed

diskVars == <<opened, replayed, faults>>

\* The single-handle KvStore of src/lib.rs and its log file
VARIABLES
  lfile,          \* content of db-lock.log, as a sequence of segments
  lpos,           \* position of the handle fh in the file
  lindex,         \* KvStore.index
  uncmp,          \* KvStore.uncmp
  lres,           \* the result of the last call
  lcalls,         \* number of calls made
  labs,           \* history: the map the calls made describe
  lcmp,           \* history: number of compactions run
  lpre            \* history: what get returned for each key when the last
                  \* compaction began

libVars == <<lfile, lpos, lindex, uncmp, lres, lcalls, labs, lcmp, lpre>>

nonEngineVars == <<poolVars, serverVars, clientVars, diskVars, libVars>>
nonPoolVars == <<engineVars, serverVars, clientVars, diskVars, libVars>>
nonServerVars == <<engineVars, poolVars, clientVars, diskVars, libVars>>
nonClientVars == <<engineVars, poolVars, serverVars, diskVars, libVars>>
nonLibVars == <<engineVars, poolVars, serverVars, clientVars, diskVars>>

vars == <<engineVars, poolVars, serverVars, clientVars, diskVars, libVars>>

NoArg == [op |-> "none", key |-> "", value |-> ""]
NoOffset == new_offset(0, 0)
NoPre == [k \in Keys |-> NoRes]

\* Mutant of ReplayFrom: a Rm record leaves the index entry in place.
RECURSIVE ReplayFromKeepRemoved(_, _, _, _)
ReplayFromKeepRemoved(f, i, idx, red) ==
  IF i > Len(f) THEN [index |-> idx, redundant_size |-> red, ok |-> TRUE]
  ELSE LET start == StartOf(f, i)
           end == StartOf(f, i + 1)
           op == f[i]
           old == IF op.key \in DOMAIN idx THEN OffsetLen(idx[op.key]) ELSE 0
       IN IF ~Decodes(op)
          THEN [index |-> idx, redundant_size |-> red, ok |-> FALSE]
          ELSE IF op.type = "Set"
          THEN ReplayFromKeepRemoved(f, i + 1,
                          MapInsert(idx, op.key, new_offset(start, end)),
                          red + old)
          ELSE ReplayFromKeepRemoved(f, i + 1, idx, red + old + (end - start))

\* Mutant of ReplayFrom: a record that does not decode is skipped.
RECURSIVE ReplayFromSkipBad(_, _, _, _)
ReplayFromSkipBad(f, i, idx, red) ==
  IF i > Len(f) THEN [index |-> idx, redundant_size |-> red, ok |-> TRUE]
  ELSE LET start == StartOf(f, i)
           end == StartOf(f, i + 1)
           op == f[i]
           old == IF op.key \in DOMAIN idx THEN OffsetLen(idx[op.key]) ELSE 0
       IN IF ~Decodes(op)
          THEN ReplayFromSkipBad(f, i + 1, idx, red)
          ELSE IF op.type = "Set"
          THEN ReplayFromSkipBad(f, i + 1,
                          MapInsert(idx, op.key, new_offset(start, end)),
                          red + old)
          ELSE ReplayFromSkipBad(f, i + 1, MapRemove(idx, op.key),
                          red + old + (end - start))

\* open: forward scan of the log from record i on, with the index and the
\* redundant size built so far; op? returns the error of a record that does
\* not decode (line 73).
RECURSIVE ReplayFrom(_, _, _, _)
ReplayFrom(f, i, idx, red) ==
  IF i > Len(f) THEN [index |-> idx, redundant_size |-> red, ok |-> TRUE]
  ELSE LET start == StartOf(f, i)
           end == StartOf(f, i + 1)
           op == f[i]
           old == IF op.key \in DOMAIN idx THEN OffsetLen(idx[op.key]) ELSE 0
       IN IF ~Decodes(op)
          THEN [index |-> idx, redundant_size |-> red, ok |-> FALSE]
          ELSE IF op.type = "Set"
          THEN ReplayFrom(f, i + 1,
                          MapInsert(idx, op.key, new_offset(start, end)),
                          red + old)
          ELSE ReplayFrom(f, i + 1, MapRemove(idx, op.key),
                          red + old + (end - start))

Replay(f) == ReplayFrom(f, 1, EmptyMap, 0)

\* get: the lookup in the index and the read of the record at its offset.
ReadResult(f, idx, k) ==
  IF k \notin DOMAIN idx THEN NoneRes
  ELSE LET op == DecodeAt(f, idx[k].start)
       IN IF op.type = "Set" THEN Some(op.value)
          ELSE IF op.type = "Rm" THEN <<"unreachable">>
          ELSE Err("Serde")

\* The same calls on an atomic map.
AbsResult(m, a) ==
  IF a.op = "get" THEN (IF a.key \in DOMAIN m THEN Some(m[a.key]) ELSE NoneRes)
  ELSE IF a.op = "rm" THEN (IF a.key \in DOMAIN m THEN Ok ELSE Err("KeyNotFound"))
  ELSE Ok
AbsApply(m, a) ==
  IF a.op = "set" THEN MapInsert(m, a.key, a.value)
  ELSE IF a.op = "rm" THEN MapRemove(m, a.key)
  ELSE m

EngineInit ==
  /\ log = <<>>
  /\ index = Replay(<<>>).index
  /\ redundant_size = Replay(<<>>).redundant_size
  /\ mutex = "free"
  /\ pc = [t \in Threads |-> "idle"]
  /\ arg = [t \in Threads |-> NoArg]
  /\ res = [t \in Threads |-> NoRes]
  /\ off = [t \in Threads |-> NoOffset]
  /\ keep = [t \in Threads |-> <<>>]
  /\ new_index = [t \in Threads |-> EmptyMap]
  /\ kv = EmptyMap
  /\ absres = [t \in Threads |-> NoRes]
  /\ own = [t \in Threads |-> EmptyMap]
  /\ expect = [t \in Threads |-> NoRes]
  /\ pre = [t \in Threads |-> NoPre]
  /\ reopened = FALSE
  /\ nops = 0

\* The store opened on an empty directory, on a disk that has not failed.
DiskInit ==
  /\ opened = Ok
  /\ replayed = 0
  /\ faults = 0

\* Log files found in the directory by open: up to MaxLogLen records, whole
\* or not.
MaxLogLen == 3
LogRecords == {SetOp("a", "x"), SetOp("a", "BIG"), SetOp("bb", "x"), RmOp("a"),
               PartOp(SetOp("a", "x")), PartOp(RmOp("a")), BadOp}
Logs == UNION {[1..n -> LogRecords] : n \in 0..MaxLogLen}

\* A directory with a log file, before KvStore::open is called on it.
Unopened ==
  /\ log \in Logs
  /\ index = EmptyMap
  /\ redundant_size = 0
  /\ mutex = "free"
  /\ pc = [t \in Threads |-> "idle"]
  /\ arg = [t \in Threads |-> NoArg]
  /\ res = [t \in Threads |-> NoRes]
  /\ off = [t \in Threads |-> NoOffset]
  /\ keep = [t \in Threads |-> <<>>]
  /\ new_index = [t \in Threads |-> EmptyMap]
  /\ kv = EmptyMap
  /\ absres = [t \in Threads |-> NoRes]
  /\ own = [t \in Threads |-> EmptyMap]
  /\ expect = [t \in Threads |-> NoRes]
  /\ pre = [t \in Threads |-> NoPre]
  /\ reopened = FALSE
  /\ nops = 0
  /\ opened = NoRes
  /\ replayed = 0
  /\ faults = 0

\* KvStore::open, lines 56-98, on the log file found.
OpenLog ==
  /\ opened = NoRes
  /\ IF Replay(log).ok
     THEN /\ index' = Replay(log).index
          /\ redundant_size' = Replay(log).redundant_size
          /\ replayed' = Replay(log).redundant_size
          /\ opened' = Ok
     ELSE /\ opened' = Err("Serde")
          /\ UNCHANGED <<index, redundant_size, replayed>>
  /\ UNCHANGED <<log, mutex, pc, arg, res, off, keep, new_index, kv, absres,
                 own, expect, pre, reopened, nops, faults>>
  /\ UNCHANGED <<poolVars, serverVars, clientVars, libVars>>

\* ------------------------------------------------------------------------
\* Engine: the calls, step by step (src/engine/kvs.rs)
\* ------------------------------------------------------------------------
\* self.0.lock().unwrap(): blocks while another thread holds the mutex and
\* panics when the mutex is poisoned.
Acquire(t, next) ==
  IF mutex = "poisoned"
  THEN /\ pc' = [pc EXCEPT ![t] = "panicked"]
       /\ UNCHANGED mutex
  ELSE /\ mutex = "free"
       /\ mutex' = t
       /\ pc' = [pc EXCEPT ![t] = next]

\* A thread calls set, remove or get on its handle.  The history variables
\* own and expect follow the thread's own calls in program order.
Call(t, o, k, v, max) ==
  /\ pc[t] = "idle"
  /\ nops < max
  /\ nops' = nops + 1
  /\ arg' = [arg EXCEPT ![t] = [op |-> o, key |-> k, value |-> v]]
  /\ pc' = [pc EXCEPT ![t] = o \o "_lock"]
  /\ expect' = [expect EXCEPT ![t] = AbsResult(own[t], arg'[t])]
  /\ own' = [own EXCEPT ![t] = AbsApply(own[t], arg'[t])]
  /\ UNCHANGED <<log, index, redundant_size, mutex, res, off, keep,
                 new_index, kv, absres, pre, reopened>>
  /\ UNCHANGED nonEngineVars

CallArgs(t, K, max) ==
  \/ \E k \in K, v \in Values : Call(t, "set", k, v, max)
  \/ \E k \in K : Call(t, "rm", k, "", max)
  \/ \E k \in K : Call(t, "get", k, "", max)

\* Number of calls made on a store opened from a log file found on disk.
MaxOpenedOps == 2
\* One thread, any key, on a store that open has returned.
CallOpened == opened = Ok /\ CallArgs(MainThread, Keys, MaxOpenedOps)
\* Any thread, any key.
CallAny == \E t \in Threads : CallArgs(t, Keys, MaxOps)
\* Every thread on its own keys.
CallOwn == \E t \in Threads : CallArgs(t, KeysOf(t), MaxOwnOps)
\* One thread only.
CallSeq == CallArgs(MainThread, Keys, MaxOwnOps)

\* set, line 153
SetLock(t) ==
  /\ pc[t] = "set_lock"
  /\ Acquire(t, "set_write")
  /\ UNCHANGED <<log, index, redundant_size, arg, res, off, keep, new_index,
                 kv, absres, own, expect, pre, reopened, nops>>
  /\ UNCHANGED nonEngineVars

\* Mutant of SetWrite: the positions are taken as if the write had started at
\* the beginning of the file (no seek to the end).
SetWriteNoSeek(t) ==
  /\ pc[t] = "set_write"
  /\ log' = Append(log, SetOp(arg[t].key, arg[t].value))
  /\ off' = [off EXCEPT ![t] =
       new_offset(0, SerLen(SetOp(arg[t].key, arg[t].value)))]
  /\ pc' = [pc EXCEPT ![t] = "set_insert"]
  /\ UNCHANGED <<index, redundant_size, mutex, arg, res, keep, new_index,
                 kv, absres, own, expect, pre, reopened, nops>>
  /\ UNCHANGED nonEngineVars

\* set, lines 154-157: seek to the end, write the record, take the positions.
SetWrite(t) ==
  /\ pc[t] = "set_write"
  /\ log' = Append(log, SetOp(arg[t].key, arg[t].value))
  /\ off' = [off EXCEPT ![t] = new_offset(FileLen(log), FileLen(log'))]
  /\ pc' = [pc EXCEPT ![t] = "set_insert"]
  /\ UNCHANGED <<index, redundant_size, mutex, arg, res, keep, new_index,
                 kv, absres, own, expect, pre, reopened, nops>>
  /\ UNCHANGED nonEngineVars

\* Mutant of SetInsert: an existing index entry is not replaced.
SetInsertKeepOld(t) ==
  /\ pc[t] = "set_insert"
  /\ index' = IF arg[t].key \in DOMAIN index THEN index
              ELSE MapInsert(index, arg[t].key, off[t])
  /\ redundant_size' =
       IF arg[t].key \in DOMAIN index
       THEN redundant_size + OffsetLen(index[arg[t].key])
       ELSE redundant_size
  /\ mutex' = "free"
  /\ off' = [off EXCEPT ![t] = NoOffset]
  /\ pc' = [pc EXCEPT ![t] = "check"]
  /\ absres' = [absres EXCEPT ![t] = AbsResult(kv, arg[t])]
  /\ kv' = AbsApply(kv, arg[t])
  /\ UNCHANGED <<log, arg, res, keep, new_index, own, expect, pre,
                 reopened, nops>>
  /\ UNCHANGED nonEngineVars

\* set, lines 159-165: index.insert, redundant_size, drop(store).
SetInsert(t) ==
  /\ pc[t] = "set_insert"
  /\ index' = MapInsert(index, arg[t].key, off[t])
  /\ redundant_size' =
       IF arg[t].key \in DOMAIN index
       THEN redundant_size + OffsetLen(index[arg[t].key])
       ELSE redundant_size
  /\ mutex' = "free"
  /\ off' = [off EXCEPT ![t] = NoOffset]
  /\ pc' = [pc EXCEPT ![t] = "check"]
  /\ absres' = [absres EXCEPT ![t] = AbsResult(kv, arg[t])]
  /\ kv' = AbsApply(kv, arg[t])
  /\ UNCHANGED <<log, arg, res, keep, new_index, own, expect, pre,
                 reopened, nops>>
  /\ UNCHANGED nonEngineVars

\* Mutant of NeedsCompaction: the comparison with the limit is not strict.
NeedsCompactionAtLimit(t) ==
  /\ pc[t] = "check"
  /\ IF mutex = "poisoned"
     THEN /\ pc' = [pc EXCEPT ![t] = "panicked"]
          /\ UNCHANGED res
     ELSE /\ mutex = "free"
          /\ IF redundant_size >= REDUNDANT_SIZE_LIMIT
             THEN /\ pc' = [pc EXCEPT ![t] = "cmp_lock"]
                  /\ UNCHANGED res
             ELSE /\ pc' = [pc EXCEPT ![t] = "ret"]
                  /\ res' = [res EXCEPT ![t] = Ok]
  /\ UNCHANGED <<log, index, redundant_size, mutex, arg, off, keep,
                 new_index, kv, absres, own, expect, pre, reopened, nops>>
  /\ UNCHANGED nonEngineVars

\* needs_compaction, lines 144-146, as called by set (167) and remove (184):
\* the mutex is taken for the comparison only.
NeedsCompaction(t) ==
  /\ pc[t] = "check"
  /\ IF mutex = "poisoned"
     THEN /\ pc' = [pc EXCEPT ![t] = "panicked"]
          /\ UNCHANGED res
     ELSE /\ mutex = "free"
          /\ IF redundant_size > REDUNDANT_SIZE_LIMIT
             THEN /\ pc' = [pc EXCEPT ![t] = "cmp_lock"]
                  /\ UNCHANGED res
             ELSE /\ pc' = [pc EXCEPT ![t] = "ret"]
                  /\ res' = [res EXCEPT ![t] = Ok]
  /\ UNCHANGED <<log, index, redundant_size, mutex, arg, off, keep,
                 new_index, kv, absres, own, expect, pre, reopened, nops>>
  /\ UNCHANGED nonEngineVars

\* Mutant of CompactLock: compact starts without taking the mutex.
CompactLockFree(t) ==
  /\ pc[t] = "cmp_lock"
  /\ pc' = [pc EXCEPT ![t] = "cmp_read"]
  /\ pre' = [pre EXCEPT ![t] = [k \in Keys |-> ReadResult(log, index, k)]]
  /\ UNCHANGED <<log, index, redundant_size, mutex, arg, res, off, keep,
                 new_index, kv, absres, own, expect, reopened, nops>>
  /\ UNCHANGED nonEngineVars

\* compact, line 101
CompactLock(t) ==
  /\ pc[t] = "cmp_lock"
  /\ Acquire(t, "cmp_read")
  /\ pre' = [pre EXCEPT ![t] = [k \in Keys |-> ReadResult(log, index, k)]]
  /\ UNCHANGED <<log, index, redundant_size, arg, res, off, keep, new_index,
                 kv, absres, own, expect, reopened, nops>>
  /\ UNCHANGED nonEngineVars

\* Mutant of IndexKeys: only the first entry of the index is visited.
IndexKeysFirst(idx) ==
  LET ks == SelectSeq(KeyOrder, LAMBDA k : k \in DOMAIN idx)
  IN IF ks = <<>> THEN ks ELSE <<Head(ks)>>

\* The index in iteration order, lines 105-109.
IndexKeys(idx) == SelectSeq(KeyOrder, LAMBDA k : k \in DOMAIN idx)

\* compact, lines 103-118: read the record of every index entry.
CompactRead(t) ==
  /\ pc[t] = "cmp_read"
  /\ LET ks == IndexKeys(index)
         ops == [i \in 1..Len(ks) |->
                   <<ks[i], DecodeAt(log, index[ks[i]].start)>>]
     IN IF \E i \in 1..Len(ks) : ~Decodes(ops[i][2])
        THEN /\ res' = [res EXCEPT ![t] = Err("Serde")]
             /\ mutex' = "free"
             /\ pc' = [pc EXCEPT ![t] = "ret"]
             /\ UNCHANGED keep
        ELSE /\ keep' = [keep EXCEPT ![t] = ops]
             /\ pc' = [pc EXCEPT ![t] = "cmp_trunc"]
             /\ UNCHANGED <<res, mutex>>
  /\ UNCHANGED <<log, index, redundant_size, arg, off, new_index, kv,
                 absres, own, expect, pre, reopened, nops>>
  /\ UNCHANGED nonEngineVars

\* compact, lines 120-125: the file is opened again, truncating.
CompactTruncate(t) ==
  /\ pc[t] = "cmp_trunc"
  /\ log' = <<>>
  /\ new_index' = [new_index EXCEPT ![t] = EmptyMap]
  /\ pc' = [pc EXCEPT ![t] = "cmp_write"]
  /\ UNCHANGED <<index, redundant_size, mutex, arg, res, off, keep, kv,
                 absres, own, expect, pre, reopened, nops>>
  /\ UNCHANGED nonEngineVars

\* Mutant of CompactWrite: the new index keeps the record's old offset.
CompactWriteOldOffset(t) ==
  /\ pc[t] = "cmp_write"
  /\ keep[t] # <<>>
  /\ LET key == Head(keep[t])[1]
         op == Head(keep[t])[2]
     IN /\ log' = Append(log, op)
        /\ new_index' = [new_index EXCEPT ![t] =
             MapInsert(new_index[t], key, index[key])]
  /\ keep' = [keep EXCEPT ![t] = Tail(keep[t])]
  /\ UNCHANGED <<index, redundant_size, mutex, pc, arg, res, off, kv,
                 absres, own, expect, pre, reopened, nops>>
  /\ UNCHANGED nonEngineVars

\* compact, lines 127-133: one pass of the loop over keep.
CompactWrite(t) ==
  /\ pc[t] = "cmp_write"
  /\ keep[t] # <<>>
  /\ LET key == Head(keep[t])[1]
         op == Head(keep[t])[2]
     IN /\ log' = Append(log, op)
        /\ new_index' = [new_index EXCEPT ![t] =
             MapInsert(new_index[t], key, new_offset(FileLen(log), FileLen(log')))]
  /\ keep' = [keep EXCEPT ![t] = Tail(keep[t])]
  /\ UNCHANGED <<index, redundant_size, mutex, pc, arg, res, off, kv,
                 absres, own, expect, pre, reopened, nops>>
  /\ UNCHANGED nonEngineVars

\* compact, lines 135-141, and the Ok(()) of the set or remove that ran it.
CompactSwap(t) ==
  /\ pc[t] = "cmp_write"
  /\ keep[t] = <<>>
  /\ index' = new_index[t]
  /\ redundant_size' = 0
  /\ mutex' = "free"
  /\ new_index' = [new_index EXCEPT ![t] = EmptyMap]
  /\ pc' = [pc EXCEPT ![t] = "ret"]
  /\ res' = [res EXCEPT ![t] = Ok]
  /\ UNCHANGED <<log, arg, off, keep, kv, absres, own, expect, pre,
                 reopened, nops>>
  /\ UNCHANGED nonEngineVars

\* remove, line 175
RemoveLock(t) ==
  /\ pc[t] = "rm_lock"
  /\ Acquire(t, "rm_body")
  /\ UNCHANGED <<log, index, redundant_size, arg, res, off, keep, new_index,
                 kv, absres, own, expect, pre, reopened, nops>>
  /\ UNCHANGED nonEngineVars

\* Mutant of RemoveMissing: the Rm record is written before the lookup
\* result is examined.
RemoveMissingAppends(t) ==
  /\ res' = [res EXCEPT ![t] = Err("KeyNotFound")]
  /\ mutex' = "free"
  /\ pc' = [pc EXCEPT ![t] = "ret"]
  /\ log' = Append(log, RmOp(arg[t].key))
  /\ UNCHANGED <<index, redundant_size>>

\* remove, line 189: the key has no index entry.
RemoveMissing(t) ==
  /\ res' = [res EXCEPT ![t] = Err("KeyNotFound")]
  /\ mutex' = "free"
  /\ pc' = [pc EXCEPT ![t] = "ret"]
  /\ UNCHANGED <<log, index, redundant_size>>

\* remove, lines 176-178: the key is taken out of the index.
RemoveFound(t) ==
  /\ redundant_size' = redundant_size + OffsetLen(index[arg[t].key])
  /\ index' = MapRemove(index, arg[t].key)
  /\ pc' = [pc EXCEPT ![t] = "rm_write"]
  /\ UNCHANGED <<log, mutex, res>>

\* remove, lines 176-189: index.remove(&key) and the match on its result.
RemoveBody(t) ==
  /\ pc[t] = "rm_body"
  /\ IF arg[t].key \in DOMAIN index THEN RemoveFound(t) ELSE RemoveMissing(t)
  /\ absres' = [absres EXCEPT ![t] = AbsResult(kv, arg[t])]
  /\ kv' = AbsApply(kv, arg[t])
  /\ UNCHANGED <<arg, off, keep, new_index, own, expect, pre, reopened, nops>>
  /\ UNCHANGED nonEngineVars

\* remove, lines 179-182: the Rm record is appended, drop(store).
RemoveWrite(t) ==
  /\ pc[t] = "rm_write"
  /\ log' = Append(log, RmOp(arg[t].key))
  /\ mutex' = "free"
  /\ pc' = [pc EXCEPT ![t] = "check"]
  /\ UNCHANGED <<index, redundant_size, arg, res, off, keep, new_index, kv,
                 absres, own, expect, pre, reopened, nops>>
  /\ UNCHANGED nonEngineVars

\* Mutant of GetLock: get reads without taking the mutex.
GetLockRacy(t) ==
  /\ pc[t] = "get_lock"
  /\ pc' = [pc EXCEPT ![t] = "get_read"]
  /\ UNCHANGED <<log, index, redundant_size, mutex, arg, res, off, keep,
                 new_index, kv, absres, own, expect, pre, reopened, nops>>
  /\ UNCHANGED nonEngineVars

\* get, line 194
GetLock(t) ==
  /\ pc[t] = "get_lock"
  /\ Acquire(t, "get_read")
  /\ UNCHANGED <<log, index, redundant_size, arg, res, off, keep, new_index,
                 kv, absres, own, expect, pre, reopened, nops>>
  /\ UNCHANGED nonEngineVars

\* get, lines 195-211: the guard is dropped when get returns; unreachable!()
\* panics with the guard held, which poisons the mutex.
GetRead(t) ==
  /\ pc[t] = "get_read"
  /\ LET r == ReadResult(log, index, arg[t].key)
     IN /\ res' = [res EXCEPT ![t] = r]
        /\ IF r = <<"unreachable">>
           THEN /\ mutex' = "poisoned"
                /\ pc' = [pc EXCEPT ![t] = "panicked"]
           ELSE /\ mutex' = "free"
                /\ pc' = [pc EXCEPT ![t] = "ret"]
  /\ absres' = [absres EXCEPT ![t] = AbsResult(kv, arg[t])]
  /\ UNCHANGED <<log, index, redundant_size, arg, off, keep, new_index, kv,
                 own, expect, pre, reopened, nops>>
  /\ UNCHANGED nonEngineVars

\* The call returns to its caller.
Return(t) ==
  /\ pc[t] = "ret"
  /\ pc' = [pc EXCEPT ![t] = "idle"]
  /\ arg' = [arg EXCEPT ![t] = NoArg]
  /\ res' = [res EXCEPT ![t] = NoRes]
  /\ absres' = [absres EXCEPT ![t] = NoRes]
  /\ expect' = [expect EXCEPT ![t] = NoRes]
  /\ pre' = [pre EXCEPT ![t] = NoPre]
  /\ UNCHANGED <<log, index, redundant_size, mutex, off, keep, new_index,
                 kv, own, reopened, nops>>
  /\ UNCHANGED nonEngineVars

\* Every handle is dropped and the store is opened again on the same
\* directory: open, lines 56-98.
Reopen ==
  /\ \A t \in Threads : pc[t] = "idle"
  /\ Replay(log).ok
  /\ index' = Replay(log).index
  /\ redundant_size' = Replay(log).redundant_size
  /\ mutex' = "free"
  /\ reopened' = TRUE
  /\ UNCHANGED <<log, pc, arg, res, off, keep, new_index, kv, absres, own,
                 expect, pre, nops>>
  /\ UNCHANGED nonEngineVars

EngineStep ==
  \E t \in Threads :
    \/ SetLock(t) \/ SetWrite(t) \/ SetInsert(t)
    \/ NeedsCompaction(t)
    \/ CompactLock(t) \/ CompactRead(t) \/ CompactTruncate(t)
    \/ CompactWrite(t) \/ CompactSwap(t)
    \/ RemoveLock(t) \/ RemoveBody(t) \/ RemoveWrite(t)
    \/ GetLock(t) \/ GetRead(t)
    \/ Return(t)

\* ------------------------------------------------------------------------
\* Engine: I/O failures (src/engine/kvs.rs)
\* ------------------------------------------------------------------------
\* I/O operations that fail in one behaviour.
MaxFaults == 1

\* An I/O error returned with `?`: the call returns Err(Io) and the guard is
\* dropped on the way out.
Fail(t) ==
  /\ faults < MaxFaults
  /\ faults' = faults + 1
  /\ res' = [res EXCEPT ![t] = Err("Io")]
  /\ mutex' = "free"
  /\ pc' = [pc EXCEPT ![t] = "ret"]
  /\ UNCHANGED <<opened, replayed, poolVars, serverVars, clientVars,
                 libVars>>

\* An I/O error met by unwrap(): the thread panics with the guard held.
Panic(t) ==
  /\ faults < MaxFaults
  /\ faults' = faults + 1
  /\ mutex' = "poisoned"
  /\ pc' = [pc EXCEPT ![t] = "panicked"]
  /\ UNCHANGED <<res, opened, replayed, poolVars, serverVars, clientVars,
                 libVars>>

\* set, line 154, and remove, line 180: seek(SeekFrom::End(0)).unwrap().
SeekPanic(t) ==
  /\ pc[t] \in {"set_write", "rm_write"}
  /\ Panic(t)
  /\ UNCHANGED <<log, index, redundant_size, arg, off, keep, new_index, kv,
                 absres, own, expect, pre, reopened, nops>>

\* set, lines 155-157: stream_position or write_all fails.  Nothing, the
\* first bytes of the record or (when the second stream_position fails) the
\* whole record has been written; the index is not changed.
SetWriteFail(t) ==
  /\ pc[t] = "set_write"
  /\ Fail(t)
  /\ \E f \in {log, Append(log, PartOp(SetOp(arg[t].key, arg[t].value))),
              Append(log, SetOp(arg[t].key, arg[t].value))} : log' = f
  /\ UNCHANGED <<index, redundant_size, arg, off, keep, new_index, kv,
                 absres, own, expect, pre, reopened, nops>>

\* remove, line 181: write_all fails, after the key was taken out of the
\* index.
RemoveWriteFail(t) ==
  /\ pc[t] = "rm_write"
  /\ Fail(t)
  /\ \E f \in {log, Append(log, PartOp(RmOp(arg[t].key)))} : log' = f
  /\ UNCHANGED <<index, redundant_size, arg, off, keep, new_index, kv,
                 absres, own, expect, pre, reopened, nops>>

\* compact, lines 103-116: rewind, seek or the read of a record fails.
CompactReadFail(t) ==
  /\ pc[t] = "cmp_read"
  /\ Fail(t)
  /\ UNCHANGED <<log, index, redundant_size, arg, off, keep, new_index, kv,
                 absres, own, expect, pre, reopened, nops>>

\* compact, lines 121-125: the file cannot be opened for truncation.
CompactTruncateFail(t) ==
  /\ pc[t] = "cmp_trunc"
  /\ Fail(t)
  /\ keep' = [keep EXCEPT ![t] = <<>>]
  /\ UNCHANGED <<log, index, redundant_size, arg, off, new_index, kv,
                 absres, own, expect, pre, reopened, nops>>

\* compact, lines 128-130: stream_position or write_all fails in the loop
\* that writes the new file.  The file was truncated at line 125; fh, index
\* and redundant_size are still the old ones (lines 135-137 are not reached).
CompactWriteFail(t) ==
  /\ pc[t] = "cmp_write"
  /\ keep[t] # <<>>
  /\ Fail(t)
  /\ \E f \in {log, Append(log, PartOp(Head(keep[t])[2])),
              Append(log, Head(keep[t])[2])} : log' = f
  /\ keep' = [keep EXCEPT ![t] = <<>>]
  /\ new_index' = [new_index EXCEPT ![t] = EmptyMap]
  /\ UNCHANGED <<index, redundant_size, arg, off, kv, absres, own, expect,
                 pre, reopened, nops>>

\* get, lines 198-199: the read handle cannot be opened, or the seek fails.
GetReadFail(t) ==
  /\ pc[t] = "get_read"
  /\ arg[t].key \in DOMAIN index
  /\ Fail(t)
  /\ UNCHANGED <<log, index, redundant_size, arg, off, keep, new_index, kv,
                 absres, own, expect, pre, reopened, nops>>

FaultStep ==
  \E t \in Threads :
    \/ SeekPanic(t) \/ SetWriteFail(t) \/ RemoveWriteFail(t)
    \/ CompactReadFail(t) \/ CompactTruncateFail(t) \/ CompactWriteFail(t)
    \/ GetReadFail(t)

\* ------------------------------------------------------------------------
\* Worker pool (src/thread_pool/shared_queue.rs)
\* ------------------------------------------------------------------------
\* Largest argument of new, and number of jobs passed to spawn.
MaxWorkers == 2
MaxJobs == 3

\* Message, lines 23-26; a job either returns or panics.
Job(j, p) == [kind |-> "Job", id |-> j, panics |-> p]
Terminate == [kind |-> "Terminate", id |-> 0, panics |-> FALSE]
NoJob == [kind |-> "None", id |-> 0, panics |-> FALSE]

\* The receivers of the channel: new drops its own receiver when it returns
\* (line 40), so what is left is the clone each worker holds until it returns.
Receivers == {w \in 1..threads : worker[w] # "exited"}

\* Sender::send on the unbounded channel: fails, and queues nothing, when
\* every receiver has been dropped.
SendFails == Receivers = {}
ChannelSend(msg) == IF SendFails THEN queue ELSE Append(queue, msg)

\* new(n), lines 29-40: n workers, each in run_worker at recv.
PoolInit ==
  /\ threads \in 0..MaxWorkers
  /\ queue = <<>>
  /\ worker = [w \in 1..threads |-> "recv"]
  /\ wjob = [w \in 1..threads |-> NoJob]
  /\ ppc = "alive"
  /\ sent = 0
  /\ joined = 0
  /\ passed = 0
  /\ runs = [j \in 1..MaxJobs |-> 0]
  /\ finished = {}
  /\ panicked = {}

\* No pool has been created.
PoolOff ==
  /\ threads = 0
  /\ queue = <<>>
  /\ worker = <<>>
  /\ wjob = <<>>
  /\ ppc = "none"
  /\ sent = 0
  /\ joined = 0
  /\ passed = 0
  /\ runs = [j \in 1..MaxJobs |-> 0]
  /\ finished = {}
  /\ panicked = {}

\* spawn, lines 42-47: send(..).unwrap() panics in the caller when the send
\* fails; the caller then unwinds, which drops the pool it owns.
Spawn(p) ==
  /\ ppc = "alive"
  /\ passed < MaxJobs
  /\ passed' = passed + 1
  /\ queue' = ChannelSend(Job(passed + 1, p))
  /\ ppc' = IF SendFails THEN "unwinding" ELSE "alive"
  /\ UNCHANGED <<threads, worker, wjob, sent, joined, runs, finished, panicked>>
  /\ UNCHANGED nonPoolVars

\* drop, line 11: the handles are taken.
DropStart ==
  /\ ppc \in {"alive", "unwinding"}
  /\ ppc' = "drop"
  /\ UNCHANGED <<threads, queue, worker, wjob, sent, joined, passed, runs,
                 finished, panicked>>
  /\ UNCHANGED nonPoolVars

\* Mutant of DropSend: the last Terminate is counted and not sent.
DropSendOneShort ==
  /\ ppc = "drop"
  /\ sent < threads
  /\ queue' = IF sent + 1 = threads THEN queue ELSE ChannelSend(Terminate)
  /\ sent' = sent + 1
  /\ UNCHANGED <<threads, worker, wjob, ppc, joined, passed, runs, finished,
                 panicked>>
  /\ UNCHANGED nonPoolVars

\* drop, lines 13-15: one Terminate per handle; a failed send is ignored.
DropSend ==
  /\ ppc = "drop"
  /\ sent < threads
  /\ queue' = ChannelSend(Terminate)
  /\ sent' = sent + 1
  /\ UNCHANGED <<threads, worker, wjob, ppc, joined, passed, runs, finished,
                 panicked>>
  /\ UNCHANGED nonPoolVars

\* drop, lines 17-19: join returns when the worker thread has ended.
DropJoin ==
  /\ ppc = "drop"
  /\ sent = threads
  /\ joined < threads
  /\ worker[joined + 1] = "exited"
  /\ joined' = joined + 1
  /\ UNCHANGED <<threads, queue, worker, wjob, ppc, sent, passed, runs,
                 finished, panicked>>
  /\ UNCHANGED nonPoolVars

\* drop returns, line 20.
DropReturn ==
  /\ ppc = "drop"
  /\ sent = threads
  /\ joined = threads
  /\ ppc' = "dropped"
  /\ UNCHANGED <<threads, queue, worker, wjob, sent, joined, passed, runs,
                 finished, panicked>>
  /\ UNCHANGED nonPoolVars

\* Mutant of WorkerRecv: the worker hands the job to a thread of its own and
\* goes back to recv at once.
WorkerRecvDetached(w) ==
  /\ w \in 1..threads
  /\ worker[w] = "recv"
  /\ queue # <<>>
  /\ queue' = Tail(queue)
  /\ IF Head(queue).kind = "Job"
     THEN /\ runs' = [runs EXCEPT ![Head(queue).id] = @ + 1]
          /\ UNCHANGED <<worker, wjob>>
     ELSE /\ worker' = [worker EXCEPT ![w] = "exited"]
          /\ UNCHANGED <<wjob, runs>>
  /\ UNCHANGED <<threads, ppc, sent, joined, passed, finished, panicked>>
  /\ UNCHANGED nonPoolVars

\* run_worker, lines 51-56: recv blocks until a message is in the channel.
WorkerRecv(w) ==
  /\ w \in 1..threads
  /\ worker[w] = "recv"
  /\ queue # <<>>
  /\ queue' = Tail(queue)
  /\ IF Head(queue).kind = "Job"
     THEN /\ worker' = [worker EXCEPT ![w] = "running"]
          /\ wjob' = [wjob EXCEPT ![w] = Head(queue)]
          /\ runs' = [runs EXCEPT ![Head(queue).id] = @ + 1]
     ELSE /\ worker' = [worker EXCEPT ![w] = "exited"]
          /\ UNCHANGED <<wjob, runs>>
  /\ UNCHANGED <<threads, ppc, sent, joined, passed, finished, panicked>>
  /\ UNCHANGED nonPoolVars

\* Mutant of WorkerFinish: a panic of the job is not caught and ends the
\* worker thread.
WorkerFinishNoCatch(w) ==
  /\ w \in 1..threads
  /\ worker[w] = "running"
  /\ finished' = finished \cup {wjob[w].id}
  /\ panicked' = IF wjob[w].panics THEN panicked \cup {wjob[w].id} ELSE panicked
  /\ worker' = [worker EXCEPT ![w] = IF wjob[w].panics THEN "exited" ELSE "recv"]
  /\ wjob' = [wjob EXCEPT ![w] = NoJob]
  /\ UNCHANGED <<threads, queue, ppc, sent, joined, passed, runs>>
  /\ UNCHANGED nonPoolVars

\* run_worker, lines 52-55: the job returns or panics; catch_unwind gives
\* Ok or Err and both arms call run_worker again.
WorkerFinish(w) ==
  /\ w \in 1..threads
  /\ worker[w] = "running"
  /\ finished' = finished \cup {wjob[w].id}
  /\ panicked' = IF wjob[w].panics THEN panicked \cup {wjob[w].id} ELSE panicked
  /\ worker' = [worker EXCEPT ![w] = "recv"]
  /\ wjob' = [wjob EXCEPT ![w] = NoJob]
  /\ UNCHANGED <<threads, queue, ppc, sent, joined, passed, runs>>
  /\ UNCHANGED nonPoolVars

PoolStep ==
  \/ \E p \in BOOLEAN : Spawn(p)
  \/ DropStart \/ DropSend \/ DropJoin \/ DropReturn
  \/ \E w \in 1..MaxWorkers : WorkerRecv(w) \/ WorkerFinish(w)

\* ------------------------------------------------------------------------
\* Server (src/network/server.rs, src/network/mod.rs)
\* ------------------------------------------------------------------------
\* Documents sent by all clients in one behaviour.
MaxReqs == 3
\* Worker threads of the pool the server spawns its connection jobs onto.
PoolSize == 2

\* The connections, and the key and value of the requests.
Conns == {"c1", "c2"}
ReqKey == "k"
ReqValue == "v"

\* NetRequest / Command, mod.rs lines 11-14 and 49-53; Garbage is a document
\* that does not decode as a NetRequest.
Request(i, c) == [id |-> i, command |-> c]
Garbage == [id |-> 0, command |-> "Garbage"]
NoRequest == [id |-> 0, command |-> "None"]
Commands == {"Get", "Set", "Rm"}

\* Option<String> in Response::Success, mod.rs line 44.
NoneOpt == <<>>
SomeOpt(v) == <<v>>

\* NetResponse::success / NetResponse::err, mod.rs lines 23-36.
NetSuccess(req, r) == [id |-> req.id, response |-> <<"Success", r>>]
NetErr(req, e) == [id |-> req.id, response |-> <<"Err", e>>]
NoResponse == [id |-> 0, response |-> <<>>]

\* The engine behind the KvsEngine trait, as one atomic map: the result of
\* get / set / remove and the map they leave.
EngineResult(m, req) ==
  AbsResult(m, [op |-> IF req.command = "Get" THEN "get"
                       ELSE IF req.command = "Rm" THEN "rm" ELSE "set",
                key |-> ReqKey, value |-> ReqValue])
EngineApply(m, req) ==
  AbsApply(m, [op |-> IF req.command = "Get" THEN "get"
                      ELSE IF req.command = "Rm" THEN "rm" ELSE "set",
               key |-> ReqKey, value |-> ReqValue])

\* An engine call that fails on I/O: Err(KvsError::Io).  A get or a remove
\* of a key that is not in the index returns before any I/O (kvs.rs lines
\* 176-189 and 196-210).
EngineFailure == Err("Io")
DoesIo(m, req) == req.command = "Set" \/ ReqKey \in DOMAIN m

\* run, lines 125-148: the response for the result of the engine call.
ResponseFor(req, r) ==
  IF r[1] = "Err" THEN NetErr(req, r[2])
  ELSE IF r[1] = "Some" THEN NetSuccess(req, SomeOpt(r[2]))
  ELSE NetSuccess(req, NoneOpt)

\* The Sender clones of the wait_for_shutdown channel that are alive: the
\* original, which the acceptor's closure owns from line 62 until the thread
\* ends, the clone made at line 74 for the pass of the loop in progress, and
\* the clone (_dropped, line 104) of every connection job spawned and not
\* yet ended.
WaitSenders ==
  (IF apc \in {"poll", "accept", "install", "wait"} THEN 1 ELSE 0)
  + (IF apc \in {"accept", "install"} THEN 1 ELSE 0)
  + Cardinality({c \in Conns : cstate[c] \in {"queued", "running"}})

\* wait_for_shutdown_rx.recv(), line 90: nothing is ever sent on the
\* channel, so recv returns only when every Sender has been dropped.
RecvReturns == WaitSenders = 0

\* KvsServer::bind and run up to the start of the acceptor thread, lines
\* 44-62; no client has connected.
ServerInit ==
  /\ apc = "poll"
  /\ hpc = "held"
  /\ shutdown_init = 0
  /\ stream_shutdown = 0
  /\ backlog = <<>>
  /\ jobq = <<>>
  /\ cstate = [c \in Conns |-> "new"]
  /\ jpc = [c \in Conns |-> "none"]
  /\ inflight = [c \in Conns |-> <<>>]
  /\ eof = [c \in Conns |-> FALSE]
  /\ cur = [c \in Conns |-> NoRequest]
  /\ resp = [c \in Conns |-> NoResponse]
  /\ out = [c \in Conns |-> <<>>]
  /\ store = EmptyMap
  /\ nsent = [c \in Conns |-> 0]
  /\ nread = [c \in Conns |-> 0]
  /\ why = [c \in Conns |-> "none"]
  /\ after = [c \in Conns |-> {}]
  /\ late = 0
  /\ signalled = {}

\* No server has been started.
ServerOff ==
  /\ apc = "none"
  /\ hpc = "none"
  /\ shutdown_init = 0
  /\ stream_shutdown = 0
  /\ backlog = <<>>
  /\ jobq = <<>>
  /\ cstate = [c \in Conns |-> "new"]
  /\ jpc = [c \in Conns |-> "none"]
  /\ inflight = [c \in Conns |-> <<>>]
  /\ eof = [c \in Conns |-> FALSE]
  /\ cur = [c \in Conns |-> NoRequest]
  /\ resp = [c \in Conns |-> NoResponse]
  /\ out = [c \in Conns |-> <<>>]
  /\ store = EmptyMap
  /\ nsent = [c \in Conns |-> 0]
  /\ nread = [c \in Conns |-> 0]
  /\ why = [c \in Conns |-> "none"]
  /\ after = [c \in Conns |-> {}]
  /\ late = 0
  /\ signalled = {}

\* A client connects: the connection waits in the listener's backlog.  The
\* connections are named in the order in which they are made.
ClientConnect(c) ==
  /\ cstate[c] = "new"
  /\ c = "c2" => cstate["c1"] # "new"
  /\ cstate' = [cstate EXCEPT ![c] = "pending"]
  /\ backlog' = Append(backlog, c)
  /\ after' = [after EXCEPT ![c] = {d \in Conns : cstate[d] = "closed"}]
  /\ UNCHANGED <<apc, hpc, shutdown_init, stream_shutdown, jobq, jpc,
                 inflight, eof, cur, resp, out, store, nsent, nread, why>>
  /\ UNCHANGED <<late, signalled, nonServerVars>>

\* A client writes one document to its connection: a request, whose id is
\* its number on the connection, or bytes that are no request.
ClientSend(c, cmd) ==
  /\ cstate[c] # "new"
  /\ ~eof[c]
  /\ nsent["c1"] + nsent["c2"] < MaxReqs
  /\ nsent' = [nsent EXCEPT ![c] = @ + 1]
  /\ inflight' = [inflight EXCEPT ![c] =
       Append(@, IF cmd = "Garbage" THEN Garbage ELSE Request(nsent[c] + 1, cmd))]
  /\ UNCHANGED <<apc, hpc, shutdown_init, stream_shutdown, backlog, jobq,
                 cstate, jpc, eof, cur, resp, out, store, nread, why>>
  /\ UNCHANGED <<after, late, signalled, nonServerVars>>

\* A client closes its end of the connection.  The job sees the end of the
\* stream only after the documents sent before it, so the close is taken
\* when they have been read.
ClientClose(c) ==
  /\ cstate[c] # "new"
  /\ ~eof[c]
  /\ inflight[c] = <<>>
  /\ eof' = [eof EXCEPT ![c] = TRUE]
  /\ UNCHANGED <<apc, hpc, shutdown_init, stream_shutdown, backlog, jobq,
                 cstate, jpc, inflight, cur, resp, out, store, nsent, nread,
                 why>>
  /\ UNCHANGED <<after, late, signalled, nonServerVars>>

\* ShutdownHandle::shutdown, lines 28-32: the signal is sent, then the
\* acceptor thread is joined.
Shutdown ==
  /\ hpc = "held"
  /\ shutdown_init' = shutdown_init + 1
  /\ hpc' = "joining"
  /\ UNCHANGED <<apc, stream_shutdown, backlog, jobq, cstate, jpc, inflight,
                 eof, cur, resp, out, store, nsent, nread, why>>
  /\ UNCHANGED <<after, late, signalled, nonServerVars>>

\* impl Drop for ShutdownHandle, lines 37-41, on a handle on which shutdown
\* was not called: drop joins the acceptor thread.  The fields of the handle,
\* shutdown_init_tx among them, are dropped only after drop has returned, so
\* nothing is sent and the Sender is alive during the join.
HandleDrop ==
  /\ hpc = "held"
  /\ hpc' = "dropping"
  /\ UNCHANGED <<apc, shutdown_init, stream_shutdown, backlog, jobq, cstate,
                 jpc, inflight, eof, cur, resp, out, store, nsent, nread, why>>
  /\ UNCHANGED <<after, late, signalled, nonServerVars>>

\* Mutant of AcceptorPoll: the signal is taken and the loop goes on.
AcceptorPollStay ==
  /\ apc = "poll"
  /\ apc' = "accept"
  /\ shutdown_init' = 0
  /\ UNCHANGED stream_shutdown
  /\ UNCHANGED <<hpc, backlog, jobq, cstate, jpc, inflight, eof, cur, resp,
                 out, store, nsent, nread, why>>
  /\ UNCHANGED <<after, late, signalled, nonServerVars>>

\* Acceptor, lines 64-71: try_recv on the shutdown channel.  After the loop
\* the thread waits in wait_for_shutdown_rx.recv() (line 90).
AcceptorPoll ==
  /\ apc = "poll"
  /\ IF shutdown_init > 0
     THEN /\ shutdown_init' = shutdown_init - 1
          /\ stream_shutdown' = stream_shutdown + 1
          /\ apc' = "wait"
          /\ signalled' = {c \in Conns : cstate[c] = "running"}
     ELSE /\ apc' = "accept"
          /\ UNCHANGED <<shutdown_init, stream_shutdown, signalled>>
  /\ UNCHANGED <<hpc, backlog, jobq, cstate, jpc, inflight, eof, cur, resp,
                 out, store, nsent, nread, why>>
  /\ UNCHANGED <<after, late, nonServerVars>>

\* Acceptor, lines 73-87: accept on the non-blocking listener; a connection
\* accepted is handed to the pool, an error is logged.
AcceptorAccept ==
  /\ apc = "accept"
  /\ apc' = "poll"
  /\ IF backlog # <<>>
     THEN /\ backlog' = Tail(backlog)
          /\ jobq' = Append(jobq, Head(backlog))
          /\ cstate' = [cstate EXCEPT ![Head(backlog)] = "queued"]
          /\ late' = IF hpc = "joining" THEN late + 1 ELSE late
     ELSE UNCHANGED <<backlog, jobq, cstate, late>>
  /\ UNCHANGED <<hpc, shutdown_init, stream_shutdown, jpc, inflight, eof,
                 cur, resp, out, store, nsent, nread, why>>
  /\ UNCHANGED <<after, signalled, nonServerVars>>

\* Acceptor, lines 73-87, over a RayonThreadPool: spawn is
\* ThreadPool::install (rayon_wrapper.rs line 18), which runs the job on a
\* thread of the pool and returns when the job has returned.
AcceptorAcceptInstall ==
  /\ apc = "accept"
  /\ IF backlog # <<>>
     THEN /\ backlog' = Tail(backlog)
          /\ jobq' = Append(jobq, Head(backlog))
          /\ cstate' = [cstate EXCEPT ![Head(backlog)] = "queued"]
          /\ late' = IF hpc = "joining" THEN late + 1 ELSE late
          /\ apc' = "install"
     ELSE /\ apc' = "poll"
          /\ UNCHANGED <<backlog, jobq, cstate, late>>
  /\ UNCHANGED <<hpc, shutdown_init, stream_shutdown, jpc, inflight, eof,
                 cur, resp, out, store, nsent, nread, why>>
  /\ UNCHANGED <<after, signalled, nonServerVars>>

\* install returns: the connection job it ran has returned.
InstallReturn ==
  /\ apc = "install"
  /\ \A c \in Conns : cstate[c] \notin {"queued", "running"}
  /\ apc' = "poll"
  /\ UNCHANGED <<hpc, shutdown_init, stream_shutdown, backlog, jobq, cstate,
                 jpc, inflight, eof, cur, resp, out, store, nsent, nread, why>>
  /\ UNCHANGED <<after, late, signalled, nonServerVars>>

\* A worker of the pool takes the oldest job: run, lines 106-110.
JobStart(c) ==
  /\ jobq # <<>>
  /\ c = Head(jobq)
  /\ Cardinality({d \in Conns : cstate[d] = "running"}) < PoolSize
  /\ jobq' = Tail(jobq)
  /\ cstate' = [cstate EXCEPT ![c] = "running"]
  /\ jpc' = [jpc EXCEPT ![c] = "poll"]
  /\ UNCHANGED <<apc, hpc, shutdown_init, stream_shutdown, backlog, inflight,
                 eof, cur, resp, out, store, nsent, nread, why>>
  /\ UNCHANGED <<after, late, signalled, nonServerVars>>

\* The job returns and its stream is dropped, which closes the socket.
JobEnd(c, reason) ==
  /\ cstate' = [cstate EXCEPT ![c] = "closed"]
  /\ jpc' = [jpc EXCEPT ![c] = "none"]
  /\ why' = [why EXCEPT ![c] = reason]

\* run, lines 112-119: try_recv on the stream_shutdown channel.
JobPoll(c) ==
  /\ cstate[c] = "running"
  /\ jpc[c] = "poll"
  /\ IF stream_shutdown > 0
     THEN /\ stream_shutdown' = stream_shutdown - 1
          /\ JobEnd(c, "shutdown")
     ELSE /\ jpc' = [jpc EXCEPT ![c] = "read"]
          /\ UNCHANGED <<stream_shutdown, cstate, why>>
  /\ UNCHANGED <<apc, hpc, shutdown_init, backlog, jobq, inflight, eof, cur,
                 resp, out, store, nsent, nread>>
  /\ UNCHANGED <<after, late, signalled, nonServerVars>>

\* Mutant of JobDecodeFail: the document that does not decode is skipped
\* and the job goes on with the next one.
JobDecodeSkip(c) ==
  /\ jpc' = [jpc EXCEPT ![c] = "poll"]
  /\ UNCHANGED <<cstate, why, cur>>

\* run, line 123: request? returns the decode error, the job ends.
JobDecodeFail(c) ==
  /\ JobEnd(c, "decode")
  /\ UNCHANGED cur

\* run, lines 121-123 and 155-157: requests.next() blocks until a document
\* or the end of the stream has arrived.
JobRead(c) ==
  /\ cstate[c] = "running"
  /\ jpc[c] = "read"
  /\ inflight[c] # <<>> \/ eof[c]
  /\ IF inflight[c] = <<>>
     THEN /\ JobEnd(c, "eof")
          /\ UNCHANGED <<inflight, nread, cur>>
     ELSE /\ inflight' = [inflight EXCEPT ![c] = Tail(@)]
          /\ nread' = [nread EXCEPT ![c] = @ + 1]
          /\ IF Head(inflight[c]) = Garbage
             THEN JobDecodeFail(c)
             ELSE /\ cur' = [cur EXCEPT ![c] = Head(inflight[c])]
                  /\ jpc' = [jpc EXCEPT ![c] = "dispatch"]
                  /\ UNCHANGED <<cstate, why>>
  /\ UNCHANGED <<apc, hpc, shutdown_init, stream_shutdown, backlog, jobq,
                 eof, resp, out, store, nsent>>
  /\ UNCHANGED <<after, late, signalled, nonServerVars>>

\* Mutant of JobDispatch's response: an engine error ends the job.
DispatchedDropOnErr(c, r) ==
  IF r[1] = "Err"
  THEN /\ JobEnd(c, "engine")
       /\ UNCHANGED resp
  ELSE /\ resp' = [resp EXCEPT ![c] = ResponseFor(cur[c], r)]
       /\ jpc' = [jpc EXCEPT ![c] = "write"]
       /\ UNCHANGED <<cstate, why>>

\* run, lines 125-148: whatever the engine returned, a response is built
\* and the job goes on to write it.
Dispatched(c, r) ==
  /\ resp' = [resp EXCEPT ![c] = ResponseFor(cur[c], r)]
  /\ jpc' = [jpc EXCEPT ![c] = "write"]
  /\ UNCHANGED <<cstate, why>>

\* run, lines 125-148: the engine call and the response built from it.
JobDispatch(c) ==
  /\ cstate[c] = "running"
  /\ jpc[c] = "dispatch"
  /\ Dispatched(c, EngineResult(store, cur[c]))
  /\ store' = EngineApply(store, cur[c])
  /\ UNCHANGED <<apc, hpc, shutdown_init, stream_shutdown, backlog, jobq,
                 inflight, eof, cur, out, nsent, nread>>
  /\ UNCHANGED <<after, late, signalled, nonServerVars>>

\* run, lines 125-148, when the engine call fails on I/O: before the index
\* was changed, or after it (a remove whose write fails, a set whose
\* compaction fails).
JobDispatchFail(c) ==
  /\ cstate[c] = "running"
  /\ jpc[c] = "dispatch"
  /\ DoesIo(store, cur[c])
  /\ Dispatched(c, EngineFailure)
  /\ store' \in {store, EngineApply(store, cur[c])}
  /\ UNCHANGED <<apc, hpc, shutdown_init, stream_shutdown, backlog, jobq,
                 inflight, eof, cur, out, nsent, nread>>
  /\ UNCHANGED <<after, late, signalled, nonServerVars>>

\* Mutant of JobWrite: the response stays in the BufWriter, which is not
\* flushed before the next request is read.
JobWriteNoFlush(c) ==
  /\ cstate[c] = "running"
  /\ jpc[c] = "write"
  /\ cur' = [cur EXCEPT ![c] = NoRequest]
  /\ resp' = [resp EXCEPT ![c] = NoResponse]
  /\ jpc' = [jpc EXCEPT ![c] = "poll"]
  /\ UNCHANGED <<apc, hpc, shutdown_init, stream_shutdown, backlog, jobq,
                 cstate, inflight, eof, out, store, nsent, nread, why>>
  /\ UNCHANGED <<after, late, signalled, nonServerVars>>

\* run, lines 151-153: the response is written and flushed.
JobWrite(c) ==
  /\ cstate[c] = "running"
  /\ jpc[c] = "write"
  /\ out' = [out EXCEPT ![c] = Append(@, resp[c])]
  /\ cur' = [cur EXCEPT ![c] = NoRequest]
  /\ resp' = [resp EXCEPT ![c] = NoResponse]
  /\ jpc' = [jpc EXCEPT ![c] = "poll"]
  /\ UNCHANGED <<apc, hpc, shutdown_init, stream_shutdown, backlog, jobq,
                 cstate, inflight, eof, store, nsent, nread, why>>
  /\ UNCHANGED <<after, late, signalled, nonServerVars>>

ServerStep ==
  \/ \E c \in Conns : ClientConnect(c)
  \/ \E c \in Conns, cmd \in Commands \cup {"Garbage"} : ClientSend(c, cmd)
  \/ \E c \in Conns : ClientClose(c)
  \/ Shutdown
  \/ AcceptorPoll
  \/ AcceptorAccept
  \/ \E c \in Conns :
       \/ JobStart(c) \/ JobPoll(c) \/ JobRead(c) \/ JobDispatch(c)
       \/ JobWrite(c)

\* ------------------------------------------------------------------------
\* Client (src/network/client.rs)
\* ------------------------------------------------------------------------
\* Calls made on the client in one behaviour, and the request ids that
\* rand::random draws.
MaxCalls == 2
ReqIds == {1, 2}

\* What one read of the stream can see: a whole response document, the first
\* part of one, the rest of one whose first part was read before, or the end
\* of the stream.
Piece(doc, part) == [doc |-> doc, part |-> part]
EofPiece == Piece(NoResponse, "eof")
Bodies == {<<"Err", "KeyNotFound">>, <<"Success", NoneOpt>>,
           <<"Success", SomeOpt(ReqValue)>>}
AnyResponse == [id : ReqIds, response : Bodies]

\* get / set / remove, lines 43-47, 52-55 and 60-63: the result for the
\* response send_request returned.
ClientResultErrAsNone(cmd, r) ==
  IF r[1] = "Err" THEN (IF cmd = "Get" THEN NoneRes ELSE Ok)
  ELSE IF cmd = "Get" THEN (IF r[2] = NoneOpt THEN NoneRes ELSE Some(r[2][1]))
  ELSE Ok

\* Mutant of ClientResult: set and remove take only Success(None) as success.
ClientResultStrict(cmd, r) ==
  IF r[1] = "Err" THEN Err(r[2])
  ELSE IF cmd = "Get" THEN (IF r[2] = NoneOpt THEN NoneRes ELSE Some(r[2][1]))
  ELSE IF r[2] = NoneOpt THEN Ok ELSE Err("Invalid response")

ClientResult(cmd, r) ==
  IF r[1] = "Err" THEN Err(r[2])
  ELSE IF cmd = "Get" THEN (IF r[2] = NoneOpt THEN NoneRes ELSE Some(r[2][1]))
  ELSE Ok

NoAnswer == [server |-> FALSE, other |-> FALSE, absent |-> FALSE]

\* KvsClient::connect has returned; nothing was sent.
ClientInit ==
  /\ kpc = "idle"
  /\ kreq = NoRequest
  /\ wire = <<>>
  /\ flight = <<>>
  /\ kdoc = NoResponse
  /\ kgot = NoResponse
  /\ kres = NoRes
  /\ remote \in {EmptyMap, MapInsert(EmptyMap, ReqKey, ReqValue)}
  /\ ans = NoAnswer
  /\ ncalls = 0

\* No client.
ClientOff ==
  /\ kpc = "none"
  /\ kreq = NoRequest
  /\ wire = <<>>
  /\ flight = <<>>
  /\ kdoc = NoResponse
  /\ kgot = NoResponse
  /\ kres = NoRes
  /\ remote = EmptyMap
  /\ ans = NoAnswer
  /\ ncalls = 0

\* get / set / remove up to the write in send_request, lines 23-25, with the
\* request of new_get_req / new_set_req / new_rm_req, lines 67-84.
KCall(cmd, id) ==
  /\ kpc \in {"idle", "done"}
  /\ ncalls < MaxCalls
  /\ ncalls' = ncalls + 1
  /\ kreq' = Request(id, cmd)
  /\ kpc' = "sent"
  /\ kdoc' = NoResponse
  /\ kgot' = NoResponse
  /\ kres' = NoRes
  /\ ans' = [NoAnswer EXCEPT !.other = (wire # <<>>)]
  /\ UNCHANGED <<wire, flight, remote>>
  /\ UNCHANGED nonClientVars

\* The server at the other end answers the request: run, server.rs lines
\* 121-153, as JobRead, JobDispatch and JobWrite do.
PeerServe ==
  /\ kpc = "sent"
  /\ ~ans.server
  /\ EofPiece \notin Range(wire)
  /\ wire' = Append(wire, Piece(ResponseFor(kreq, EngineResult(remote, kreq)), "whole"))
  /\ remote' = EngineApply(remote, kreq)
  /\ ans' = [ans EXCEPT !.server = TRUE, !.absent = (ReqKey \notin DOMAIN remote)]
  /\ UNCHANGED <<kpc, kreq, flight, kdoc, kgot, kres, ncalls>>
  /\ UNCHANGED nonClientVars

\* The same when the engine call fails on I/O, as JobDispatchFail does.
PeerServeFail ==
  /\ kpc = "sent"
  /\ ~ans.server
  /\ EofPiece \notin Range(wire)
  /\ DoesIo(remote, kreq)
  /\ wire' = Append(wire, Piece(ResponseFor(kreq, EngineFailure), "whole"))
  /\ remote' \in {remote, EngineApply(remote, kreq)}
  /\ ans' = [ans EXCEPT !.server = TRUE, !.absent = (ReqKey \notin DOMAIN remote)]
  /\ UNCHANGED <<kpc, kreq, flight, kdoc, kgot, kres, ncalls>>
  /\ UNCHANGED nonClientVars

\* The server answers the request and its response reaches the client in
\* two parts: the bytes written by write_all (server.rs line 152) arrive in
\* two segments.  A response longer than the 4096 bytes of buf (line 28) is
\* read in the same way: the read returns its first part and the rest stays
\* in the socket.
PeerServeSplit ==
  /\ kpc = "sent"
  /\ ~ans.server
  /\ flight = <<>>
  /\ EofPiece \notin Range(wire)
  /\ LET doc == ResponseFor(kreq, EngineResult(remote, kreq))
     IN /\ wire' = Append(wire, Piece(doc, "head"))
        /\ flight' = <<Piece(doc, "tail")>>
  /\ remote' = EngineApply(remote, kreq)
  /\ ans' = [ans EXCEPT !.server = TRUE, !.absent = (ReqKey \notin DOMAIN remote)]
  /\ UNCHANGED <<kpc, kreq, kdoc, kgot, kres, ncalls>>
  /\ UNCHANGED nonClientVars

\* The rest of a response arrives.
PeerArrive ==
  /\ flight # <<>>
  /\ wire' = Append(wire, Head(flight))
  /\ flight' = Tail(flight)
  /\ UNCHANGED <<kpc, kreq, kdoc, kgot, kres, remote, ans, ncalls>>
  /\ UNCHANGED nonClientVars

\* Anything else that can arrive on the connection, once per call: a
\* response with any id and body, whole or cut short.
PeerOther(doc, part) ==
  /\ kpc \in {"idle", "sent", "done"}
  /\ ~ans.other
  /\ EofPiece \notin Range(wire)
  /\ wire' = Append(wire, Piece(doc, part))
  /\ ans' = [ans EXCEPT !.other = TRUE]
  /\ UNCHANGED <<kpc, kreq, flight, kdoc, kgot, kres, remote, ncalls>>
  /\ UNCHANGED nonClientVars

\* The other end closes the connection.
PeerClose ==
  /\ kpc \in {"idle", "sent", "done"}
  /\ EofPiece \notin Range(wire)
  /\ wire' = Append(wire, EofPiece)
  /\ ans' = [ans EXCEPT !.other = TRUE]
  /\ UNCHANGED <<kpc, kreq, flight, kdoc, kgot, kres, remote, ncalls>>
  /\ UNCHANGED nonClientVars

\* Mutant of Accept: the response is returned whatever its id.
AcceptAnyId(doc) ==
  /\ kgot' = doc
  /\ kpc' = "read"
  /\ UNCHANGED kres

\* send_request, lines 33-37: a response with another id than the request's
\* is an error; the response with the request's id is returned.
Accept(doc) ==
  IF doc.id # kreq.id
  THEN /\ kres' = Err("Invalid response")
       /\ kpc' = "done"
       /\ UNCHANGED kgot
  ELSE /\ kgot' = doc
       /\ kpc' = "read"
       /\ UNCHANGED kres

\* The pieces one read returns: all that arrived before the end of the stream.
Arrived(w) == SelectSeq(w, LAMBDA p : p.part # "eof")

\* The bytes of the pieces read: the first part of a document followed by
\* its rest is the whole document.
RECURSIVE Joined(_)
Joined(w) ==
  IF Len(w) < 2 THEN w
  ELSE IF w[1].part = "head" /\ w[2].part = "tail" /\ w[1].doc = w[2].doc
       THEN <<Piece(w[1].doc, "whole")>> \o Joined(SubSeq(w, 3, Len(w)))
       ELSE <<w[1]>> \o Joined(Tail(w))

\* send_request, lines 28-37: one read of the stream, which waits for bytes
\* or the end of the stream; from_slice decodes what was read when it is
\* exactly one document.
KRead ==
  /\ kpc = "sent"
  /\ wire # <<>>
  /\ wire' = IF EofPiece \in Range(wire) THEN <<EofPiece>> ELSE <<>>
  /\ IF Len(Joined(Arrived(wire))) = 1 /\ Joined(Arrived(wire))[1].part = "whole"
     THEN /\ kdoc' = Joined(Arrived(wire))[1].doc
          /\ Accept(Joined(Arrived(wire))[1].doc)
     ELSE /\ kres' = Err("Serde")
          /\ kpc' = "done"
          /\ UNCHANGED <<kdoc, kgot>>
  /\ UNCHANGED <<kreq, flight, remote, ans, ncalls>>
  /\ UNCHANGED nonClientVars

\* get / set / remove, lines 43-47, 52-55 and 60-63: the match on the
\* response.
KMatch ==
  /\ kpc = "read"
  /\ kres' = ClientResult(kreq.command, kgot.response)
  /\ kpc' = "done"
  /\ UNCHANGED <<kreq, wire, flight, kdoc, kgot, remote, ans, ncalls>>
  /\ UNCHANGED nonClientVars

ClientStep ==
  \/ \E cmd \in Commands, id \in ReqIds : KCall(cmd, id)
  \/ PeerServe
  \/ PeerServeFail
  \/ \E doc \in AnyResponse, part \in {"whole", "head"} : PeerOther(doc, part)
  \/ PeerClose
  \/ KRead
  \/ KMatch

\* ------------------------------------------------------------------------
\* The single-handle store (src/lib.rs)
\* ------------------------------------------------------------------------
\* lib.rs line 17.
SIZE_LIMIT == 10000
\* Calls, or loops of calls, made on the store in one behaviour.
MaxLibCalls == 5
\* Length of the caller's loop of identical set calls.
BulkOps == SIZE_LIMIT - 2
\* The values written to the store.
LibValues == {"x", "y"}

\* serde_json::to_string_pretty(&op).len(), lines 38 and 55: the text of
\* Op::Set is 49 bytes and the two strings, that of Op::Rm 31 bytes and the
\* key.  A byte that belongs to no record's text (the zero bytes of a hole)
\* counts for itself.
PrettyLen(op) ==
  IF op.type = "Set" THEN 49 + StrLen(op.key) + StrLen(op.value)
  ELSE IF op.type = "Rm" THEN 31 + StrLen(op.key)
  ELSE 1

\* The file is a sequence of segments: n copies of the bytes lo..hi of the
\* text of op.  A record written whole is the segment 1..PrettyLen(op); what
\* a later write leaves of it is a segment of part of its bytes.
ZeroOp == [type |-> "Zero", key |-> "", value |-> ""]
Seg(op, lo, hi, n) == [op |-> op, lo |-> lo, hi |-> hi, n |-> n]
Records(op, n) == Seg(op, 1, PrettyLen(op), n)
SegLen(s) == s.n * (s.hi - s.lo + 1)
WholeSeg(s) ==
  s.op.type \in {"Set", "Rm"} /\ s.lo = 1 /\ s.hi = PrettyLen(s.op)

RECURSIVE LibFileLen(_)
LibFileLen(f) == IF f = <<>> THEN 0 ELSE SegLen(Head(f)) + LibFileLen(Tail(f))

\* The first p bytes of segment s, and the bytes after them (0 < p < SegLen).
SegTake(s, p) ==
  LET u == s.hi - s.lo + 1
      q == p \div u
      r == p % u
  IN (IF q > 0 THEN <<Seg(s.op, s.lo, s.hi, q)>> ELSE <<>>)
     \o (IF r > 0 THEN <<Seg(s.op, s.lo, s.lo + r - 1, 1)>> ELSE <<>>)
SegDrop(s, p) ==
  LET u == s.hi - s.lo + 1
      q == p \div u
      r == p % u
      rest == s.n - q - (IF r > 0 THEN 1 ELSE 0)
  IN (IF r > 0 THEN <<Seg(s.op, s.lo + r, s.hi, 1)>> ELSE <<>>)
     \o (IF rest > 0 THEN <<Seg(s.op, s.lo, s.hi, rest)>> ELSE <<>>)

\* The first p bytes of file f, and the bytes of f from offset p on.
RECURSIVE Take(_, _)
Take(f, p) ==
  IF p <= 0 \/ f = <<>> THEN <<>>
  ELSE IF SegLen(Head(f)) <= p
       THEN <<Head(f)>> \o Take(Tail(f), p - SegLen(Head(f)))
       ELSE SegTake(Head(f), p)
RECURSIVE Drop(_, _)
Drop(f, p) ==
  IF f = <<>> THEN <<>>
  ELSE IF p <= 0 THEN f
  ELSE IF SegLen(Head(f)) <= p THEN Drop(Tail(f), p - SegLen(Head(f)))
  ELSE SegDrop(Head(f), p) \o Tail(f)

\* Neighbouring copies of the same record are one segment.
RECURSIVE Norm(_)
Norm(f) ==
  IF Len(f) <= 1 THEN f
  ELSE LET s == Head(f)
           t == Norm(Tail(f))
       IN IF /\ s.op = Head(t).op /\ s.lo = 1 /\ Head(t).lo = 1
             /\ s.hi = PrettyLen(s.op) /\ Head(t).hi = s.hi
          THEN <<Seg(s.op, s.lo, s.hi, s.n + Head(t).n)>> \o Tail(t)
          ELSE <<s>> \o t

\* write_all of n copies of the text of op through a handle at position p
\* of a file that was not opened for appending (lines 97-101): the bytes
\* p..p+len are replaced, and a position beyond the end leaves a hole of
\* zero bytes.
WriteAt(f, p, op, n) ==
  Norm(Take(f, p)
       \o (IF p > LibFileLen(f)
           THEN <<Records(ZeroOp, p - LibFileLen(f))>> ELSE <<>>)
       \o <<Records(op, n)>>
       \o Drop(f, p + n * PrettyLen(op)))

\* seek(Start(p)) and one stream.next() (lines 74-76): the record whose text
\* starts at byte p.  The text of a record starts with "{" and holds no
\* complete Op inside it, so nothing decodes from the middle of a record,
\* from a record whose end was overwritten, from zero bytes or at the end
\* of the file.
RECURSIVE LibDecodeAt(_, _)
LibDecodeAt(f, p) ==
  IF f = <<>> \/ p < 0 THEN NoRecord
  ELSE IF p >= SegLen(Head(f)) THEN LibDecodeAt(Tail(f), p - SegLen(Head(f)))
  ELSE IF WholeSeg(Head(f)) /\ p % PrettyLen(Head(f).op) = 0 THEN Head(f).op
  ELSE NoRecord

\* get, lines 71-90.  The key of the record read is not compared with the
\* key asked for; a record that is an Rm reaches unreachable!().
LibPanic == <<"Panic">>
LibGetResult(f, idx, k) ==
  IF k \notin DOMAIN idx THEN NoneRes
  ELSE LET op == LibDecodeAt(f, idx[k])
       IN IF op.type = "Set" THEN Some(op.value)
          ELSE IF op.type = "Rm" THEN LibPanic
          ELSE Err("DeSer")

\* compact, lines 128-139: the scan of the whole file into the HashMap keep;
\* `op?` returns the error of the first text that is no record.
RECURSIVE LibScan(_, _)
LibScan(f, kp) ==
  IF f = <<>> THEN [keep |-> kp, ok |-> TRUE]
  ELSE IF ~WholeSeg(Head(f)) THEN [keep |-> kp, ok |-> FALSE]
  ELSE LibScan(Tail(f),
               IF Head(f).op.type = "Set"
               THEN MapInsert(kp, Head(f).op.key, Head(f).op)
               ELSE MapRemove(kp, Head(f).op.key))

\* compact, lines 148-150: `for (_, op) in keep` visits the entries of a
\* HashMap, whose order is not specified; q is one order of the keys.
Orders(S) ==
  {q \in [1..Cardinality(S) -> S] : \A i, j \in DOMAIN q : i # j => q[i] # q[j]}
Rewrite(kp, q) == [i \in DOMAIN q |-> Records(kp[q[i]], 1)]

\* The position of fh after a decode error inside the file depends on the
\* bytes met; no call is made on a store in that state.
UnknownPos == -1

\* No store of lib.rs has been opened.
LibOff ==
  /\ lfile = <<>>
  /\ lpos = 0
  /\ lindex = EmptyMap
  /\ uncmp = 0
  /\ lres = NoRes
  /\ lcalls = MaxLibCalls
  /\ labs = EmptyMap
  /\ lcmp = 0
  /\ lpre = NoPre

\* open, lines 93-122, on an empty directory: the file is created, the scan
\* reads nothing, uncmp is 0.
LibInit ==
  /\ lfile = <<>>
  /\ lpos = 0
  /\ lindex = EmptyMap
  /\ uncmp = 0
  /\ lres = NoRes
  /\ lcalls = 0
  /\ labs = EmptyMap
  /\ lcmp = 0
  /\ lpre = NoPre

\* A call is made on the store (&mut self: one call at a time).
LibCall(a) ==
  /\ lcalls < MaxLibCalls
  /\ lpos # UnknownPos
  /\ lres # LibPanic
  /\ lcalls' = lcalls + 1
  /\ labs' = AbsApply(labs, a)
  /\ UNCHANGED nonLibVars

\* The end of set and remove, lines 39-45 and 56-61, after the write of n
\* records left the file f1, the position p1 and the index idx1: uncmp is
\* raised and, when it equals SIZE_LIMIT, compact runs.  compact (lines
\* 127-152) rewinds fh and reads the file to its end, truncates the file
\* through a second handle nf, writes the kept records through nf and
\* returns: fh, index and uncmp are not assigned.
LibFinish(f1, p1, idx1, n) ==
  /\ uncmp' = uncmp + n
  /\ lindex' = idx1
  /\ IF uncmp + n = SIZE_LIMIT
     THEN LET scan == LibScan(f1, EmptyMap)
          IN IF scan.ok
             THEN \E q \in Orders(DOMAIN scan.keep) :
                    /\ lfile' = Norm(Rewrite(scan.keep, q))
                    /\ lpos' = LibFileLen(f1)
                    /\ lres' = Ok
                    /\ lcmp' = lcmp + 1
                    /\ lpre' = [k \in Keys |-> LibGetResult(f1, idx1, k)]
             ELSE /\ lfile' = f1
                  /\ lpos' = UnknownPos
                  /\ lres' = Err("DeSer")
                  /\ UNCHANGED <<lcmp, lpre>>
     ELSE /\ lfile' = f1
          /\ lpos' = p1
          /\ lres' = Ok
          /\ UNCHANGED <<lcmp, lpre>>

\* set, lines 34-46: the index takes the position of fh, then the record is
\* written at that position.
LibSet(k, v) ==
  /\ LibCall([op |-> "set", key |-> k, value |-> v])
  /\ LibFinish(WriteAt(lfile, lpos, SetOp(k, v), 1),
               lpos + PrettyLen(SetOp(k, v)),
               MapInsert(lindex, k, lpos), 1)

\* BulkOps calls of set(k, v) one after the other, none of which brings
\* uncmp to SIZE_LIMIT: each writes its record behind the one before.
LibSetMany(k, v) ==
  /\ uncmp + BulkOps < SIZE_LIMIT
  /\ LibCall([op |-> "set", key |-> k, value |-> v])
  /\ LibFinish(WriteAt(lfile, lpos, SetOp(k, v), BulkOps),
               lpos + BulkOps * PrettyLen(SetOp(k, v)),
               MapInsert(lindex, k,
                         lpos + (BulkOps - 1) * PrettyLen(SetOp(k, v))),
               BulkOps)

\* remove, lines 49-68.
LibRemove(k) ==
  /\ LibCall([op |-> "rm", key |-> k, value |-> ""])
  /\ IF k \in DOMAIN lindex
     THEN LibFinish(WriteAt(lfile, lpos, RmOp(k), 1),
                    lpos + PrettyLen(RmOp(k)), MapRemove(lindex, k), 1)
     ELSE /\ lres' = Err("KeyNotFound")
          /\ UNCHANGED <<lfile, lpos, lindex, uncmp, lcmp, lpre>>

\* get, lines 71-90: fh itself is moved to the offset and read from, and is
\* left behind the record read.
LibGet(k) ==
  /\ LibCall([op |-> "get", key |-> k, value |-> ""])
  /\ lres' = LibGetResult(lfile, lindex, k)
  /\ lpos' = IF k \notin DOMAIN lindex THEN lpos
             ELSE IF LibDecodeAt(lfile, lindex[k]) # NoRecord
                  THEN lindex[k] + PrettyLen(LibDecodeAt(lfile, lindex[k]))
             ELSE IF lindex[k] >= LibFileLen(lfile) THEN lindex[k]
             ELSE UnknownPos
  /\ UNCHANGED <<lfile, lindex, uncmp, lcmp, lpre>>

LibStep ==
  \/ \E k \in Keys, v \in LibValues : LibSet(k, v)
  \/ \E k \in Keys, v \in LibValues : LibSetMany(k, v)
  \/ \E k \in Keys : LibRemove(k)
  \/ \E k \in Keys : LibGet(k)

\* ------------------------------------------------------------------------
\* Specifications
\* ------------------------------------------------------------------------
\* The engine, with threads that share all keys.
Init ==
  EngineInit /\ DiskInit /\ PoolOff /\ ServerOff /\ ClientOff /\ LibOff
Next == CallAny \/ EngineStep \/ Reopen
Spec == Init /\ [][Next]_vars

\* The engine, with threads that use disjoint keys.
NextDisjoint == CallOwn \/ EngineStep \/ Reopen
SpecDisjoint == Init /\ [][NextDisjoint]_vars

\* The engine with one caller, on a disk whose operations can fail.
NextFaulty == CallSeq \/ EngineStep \/ FaultStep
SpecFaulty == Init /\ [][NextFaulty]_vars

\* The engine with threads that share all keys, on a disk whose operations
\* can fail.
NextFaultyShared == CallAny \/ EngineStep \/ FaultStep
SpecFaultyShared == Init /\ [][NextFaultyShared]_vars

\* KvStore::open on any log file.
InitOpen ==
  Unopened /\ PoolOff /\ ServerOff /\ ClientOff /\ LibOff
NextOpen == OpenLog
SpecOpen == InitOpen /\ [][NextOpen]_vars

\* KvStore::open on any log file, and calls on the store it returns.
NextOpened == OpenLog \/ CallOpened \/ EngineStep
SpecOpened == InitOpen /\ [][NextOpened]_vars

\* The engine, with one caller.
NextSeq == CallSeq \/ EngineStep \/ Reopen
SpecSeq == Init /\ [][NextSeq]_vars

\* The worker pool, from new to the end of drop.
InitPool ==
  EngineInit /\ DiskInit /\ PoolInit /\ ServerOff /\ ClientOff /\ LibOff
NextPool == PoolStep
SpecPool == InitPool /\ [][NextPool]_vars

\* The worker pool when every thread that can take a step eventually takes
\* it: the owner inside drop, a worker whose recv has a message, and a
\* running job, which returns or panics.
FairPool ==
  /\ WF_vars(DropSend) /\ WF_vars(DropJoin) /\ WF_vars(DropReturn)
  /\ \A w \in 1..MaxWorkers : WF_vars(WorkerRecv(w)) /\ WF_vars(WorkerFinish(w))
SpecPoolFair == InitPool /\ [][NextPool]_vars /\ FairPool

\* The server, its clients and its connection jobs.
InitServer ==
  EngineInit /\ DiskInit /\ PoolOff /\ ServerInit /\ ClientOff /\ LibOff
NextServer == ServerStep
SpecServer == InitServer /\ [][NextServer]_vars

\* The server over an engine whose calls may fail on I/O; the clients send
\* requests that decode and no shutdown is signalled.
NextServerFaulty ==
  \/ \E c \in Conns : ClientConnect(c)
  \/ \E c \in Conns, cmd \in Commands : ClientSend(c, cmd)
  \/ \E c \in Conns : ClientClose(c)
  \/ AcceptorPoll
  \/ AcceptorAccept
  \/ \E c \in Conns :
       \/ JobStart(c) \/ JobPoll(c) \/ JobRead(c) \/ JobDispatch(c)
       \/ JobDispatchFail(c) \/ JobWrite(c)
SpecServerFaulty == InitServer /\ [][NextServerFaulty]_vars

\* The server over a RayonThreadPool.
NextServerRayon ==
  \/ \E c \in Conns : ClientConnect(c)
  \/ \E c \in Conns, cmd \in Commands \cup {"Garbage"} : ClientSend(c, cmd)
  \/ \E c \in Conns : ClientClose(c)
  \/ Shutdown
  \/ AcceptorPoll
  \/ AcceptorAcceptInstall
  \/ InstallReturn
  \/ \E c \in Conns :
       \/ JobStart(c) \/ JobPoll(c) \/ JobRead(c) \/ JobDispatch(c)
       \/ JobWrite(c)
SpecServerRayon == InitServer /\ [][NextServerRayon]_vars

\* The server whose handle is either used for shutdown or dropped.  The
\* acceptor thread and the threads of the pool are scheduled by the operating
\* system: a step one of them can take is taken.  Nothing is assumed of the
\* clients and of the owner of the handle.
NextServerDrop == ServerStep \/ HandleDrop
FairServer ==
  /\ WF_vars(AcceptorPoll) /\ WF_vars(AcceptorAccept)
  /\ \A c \in Conns :
       /\ WF_vars(JobStart(c)) /\ WF_vars(JobPoll(c)) /\ WF_vars(JobRead(c))
       /\ WF_vars(JobDispatch(c)) /\ WF_vars(JobWrite(c))
SpecServerDrop == InitServer /\ [][NextServerDrop]_vars /\ FairServer

\* A KvsClient and the other end of its connection.
InitClient ==
  EngineInit /\ DiskInit /\ PoolOff /\ ServerOff /\ ClientInit /\ LibOff
NextClient == ClientStep
SpecClient == InitClient /\ [][NextClient]_vars

\* The single-handle store of lib.rs and its one caller.
InitLib ==
  EngineInit /\ DiskInit /\ PoolOff /\ ServerOff /\ ClientOff /\ LibInit
NextLib == LibStep
SpecLib == InitLib /\ [][NextLib]_vars

\* A KvsClient and a server whose responses may arrive in parts.
NextClientWire == ClientStep \/ PeerServeSplit \/ PeerArrive
SpecClientWire == InitClient /\ [][NextClientWire]_vars

\* ------------------------------------------------------------------------
\* Engine: properties
\* ------------------------------------------------------------------------
\* C1: every call through the cloned handles returns what the same call
\* returns on an atomic map (kv) at one instant between the call and its
\* return: the instant the call changes or reads the index under the mutex.
\* The order of these instants is a total order of the calls that respects
\* program order and real time; no call panics.
Linearizable ==
  \A t \in Threads :
    /\ pc[t] # "panicked"
    /\ pc[t] = "ret" => res[t] = absres[t]

\* A get of t1 returns the value that the set of t2, still in progress,
\* has written.
LinearizableWitness ==
  /\ pc["t1"] = "ret" /\ arg["t1"].op = "get"
  /\ pc["t2"] \in {"check", "cmp_lock"} /\ arg["t2"].op = "set"
  /\ arg["t2"].key = arg["t1"].key
  /\ res["t1"] = Some(arg["t2"].value)
  /\ Len(log) >= 2

\* C2: with one caller, every call returns what the calls made before it
\* determine: get(k) returns Some(v) for the most recent set(k, v) that no
\* successful remove(k) followed, and None otherwise.
SequentialResults ==
  pc[MainThread] = "ret" => res[MainThread] = expect[MainThread]

\* set(k, BIG); set(k, x); get(k) has returned Some(x).
SequentialWitness ==
  /\ pc[MainThread] = "ret" /\ arg[MainThread].op = "get"
  /\ res[MainThread] = Some("x")
  /\ Len(log) = 2
  /\ log[1] = SetOp(arg[MainThread].key, "BIG")
  /\ log[2] = SetOp(arg[MainThread].key, "x")

\* C3: opening the store again rebuilds an index with the same keys, and get
\* returns for every key what it returned before the store was dropped.
ReopenPreservesGets ==
  [][Reopen =>
       /\ DOMAIN index' = DOMAIN index
       /\ \A k \in Keys :
            ReadResult(log', index', k) = ReadResult(log, index, k)]_vars

\* The store was opened from a log that holds a Rm record and a live key.
ReopenWitness ==
  /\ reopened
  /\ index # EmptyMap
  /\ \E i \in 1..Len(log) : log[i].type = "Rm"
  /\ DOMAIN index = DOMAIN Replay(log).index

\* C4: remove of a key that has no index entry returns KeyNotFound and
\* changes neither the log, the index nor redundant_size.
RemoveMissingNoEffect ==
  [][\A t \in Threads :
       (RemoveBody(t) /\ arg[t].key \notin DOMAIN index) =>
         /\ res'[t] = Err("KeyNotFound")
         /\ pc'[t] = "ret"
         /\ log' = log
         /\ index' = index
         /\ redundant_size' = redundant_size]_vars

\* remove of a key that was set and removed before.
RemoveMissingWitness ==
  \E t \in Threads :
    /\ pc[t] = "ret" /\ arg[t].op = "rm" /\ res[t] = Err("KeyNotFound")
    /\ \E i, j \in 1..Len(log) :
         /\ i < j
         /\ log[i].type = "Set" /\ log[i].key = arg[t].key
         /\ log[j] = RmOp(arg[t].key)

\* C5: the step that completes a compaction leaves the keys of the index
\* and every get result as they were when the compaction took the mutex,
\* redundant_size 0, and a log of exactly one Set record per index entry,
\* the entry holding the record's (start, end).
CompactionPreserves ==
  [][\A t \in Threads :
       CompactSwap(t) =>
         /\ redundant_size' = 0
         /\ \A k \in Keys : ReadResult(log', index', k) = pre[t][k]
         /\ Len(log') = Cardinality(DOMAIN index')
         /\ \A k \in DOMAIN index' :
              \E i \in 1..Len(log') :
                /\ log'[i].type = "Set" /\ log'[i].key = k
                /\ index'[k] = new_offset(StartOf(log', i), StartOf(log', i + 1))]_vars

\* A compaction that rewrote two live keys has completed.
CompactionWitness ==
  \E t \in Threads :
    /\ pc[t] = "ret" /\ pre[t] # NoPre
    /\ redundant_size = 0
    /\ DOMAIN index = Keys
    /\ Len(log) = 2

\* C6: when the threads use disjoint keys, every get returns what the
\* thread's own calls, run alone in program order, would return.
DisjointGets ==
  \A t \in Threads :
    (pc[t] = "ret" /\ arg[t].op = "get") => res[t] = expect[t]

\* t1 has read back its own value, and the set of t2 that is about to
\* return has run a compaction that rewrote the record of t1's key.
DisjointWitness ==
  /\ pc["t1"] = "ret" /\ arg["t1"].op = "get" /\ res["t1"] = Some("x")
  /\ pc["t2"] = "ret" /\ pre["t2"] # NoPre
  /\ redundant_size = 0
  /\ Len(log) = 2
  /\ log[2] = SetOp("bb", "BIG")

\* C7: while the mutex is free, every index entry (start, end) is the span
\* of a Set record of its key that holds the last value set for the key;
\* get never finds a Rm record at an indexed offset.
IndexPointsAtLiveSet ==
  /\ mutex = "free" =>
       \A k \in DOMAIN index :
         LET op == DecodeAt(log, index[k].start)
         IN /\ op.type = "Set"
            /\ op.key = k
            /\ k \in DOMAIN kv /\ op.value = kv[k]
            /\ OffsetLen(index[k]) = SerLen(op)
  /\ mutex # "poisoned"
  /\ \A t \in Threads : res[t] # <<"unreachable">>

\* A get has read a key whose earlier records are dead in the log.
IndexWitness ==
  /\ mutex = "free"
  /\ Len(log) = 2
  /\ Cardinality(DOMAIN index) = 1
  /\ \E t \in Threads :
       /\ pc[t] = "ret" /\ arg[t].op = "get"
       /\ res[t] = Some("x")
       /\ index[arg[t].key].start > 0

\* The bytes of the records the index points at.
RECURSIVE LiveBytes(_, _)
LiveBytes(ks, idx) ==
  IF ks = <<>> THEN 0 ELSE OffsetLen(idx[Head(ks)]) + LiveBytes(Tail(ks), idx)

\* C19: whenever the mutex is free, redundant_size is the number of bytes of
\* the log that the index does not reach (overwritten and removed Set
\* records and all Rm records), which is also the value open computes by
\* replaying the log.
RedundantSizeExact ==
  mutex = "free" =>
    /\ redundant_size = FileLen(log) - LiveBytes(IndexKeys(index), index)
    /\ redundant_size = Replay(log).redundant_size

\* C20: a thread that is at the file read of get does not hold the mutex.
GetReadsUnlocked == \A t \in Threads : pc[t] = "get_read" => mutex # t

\* C16: open on a log whose last record was cut short, all records before it
\* being whole, succeeds with the index of those records.
OpenToleratesTruncatedTail ==
  (/\ opened # NoRes
   /\ log # <<>>
   /\ log[Len(log)].type = "Part"
   /\ \A i \in 1..(Len(log) - 1) : Decodes(log[i]))
  => /\ opened = Ok
     /\ index = Replay(SubSeq(log, 1, Len(log) - 1)).index

\* C17: open returns the codec error and no store when some record of the
\* log does not decode, whatever its place in the log, and only then.
OpenFailsOnUndecodable ==
  opened # NoRes =>
    IF \E i \in DOMAIN log : ~Decodes(log[i])
    THEN opened = Err("Serde") /\ index = EmptyMap /\ redundant_size = 0
    ELSE opened = Ok

\* open has failed on a log whose second record of three is no Op.
OpenFailsWitness ==
  /\ opened = Err("Serde")
  /\ log = <<SetOp("a", "x"), BadOp, SetOp("bb", "x")>>

\* C18: after an I/O failure in a set, a remove or the compaction one of
\* them ran, whenever the mutex is free every key in the index is readable
\* and yields the value of the last set that put it there.
ConsistentAfterIoFailure ==
  (faults > 0 /\ mutex = "free") =>
    \A k \in DOMAIN index : ReadResult(log, index, k) = Some(kv[k])

\* The call get(k).
GetOf(k) == [op |-> "get", key |-> k, value |-> ""]

\* C21: the read of a get never happens while another thread is between the
\* lock and the swap of a compaction; it decodes and returns the value the
\* key has in the atomic map, and the swap of a compaction leaves every get
\* result as it was when the compaction took the mutex, so a get that runs
\* beside a compaction returns the same value before and after it.
GetBesideCompaction ==
  [][\A t \in Threads :
       /\ GetRead(t) =>
            /\ \A u \in Threads \ {t} :
                 pc[u] \notin {"cmp_read", "cmp_trunc", "cmp_write"}
            /\ res'[t] = AbsResult(kv, arg[t])
            /\ pc'[t] = "ret"
       /\ CompactSwap(t) =>
            \A k \in Keys :
              /\ ReadResult(log', index', k) = pre[t][k]
              /\ ReadResult(log', index', k) = AbsResult(kv, GetOf(k))]_vars

\* t2's set(k, x) over set(k, BIG) has run a compaction and is about to
\* return; t1's get(k), made after the insert of that set and before its
\* return, has read x.
GetBesideCompactionWitness ==
  /\ pc["t2"] = "ret" /\ arg["t2"].op = "set" /\ pre["t2"] # NoPre
  /\ pc["t1"] = "ret" /\ arg["t1"].op = "get"
  /\ arg["t1"].key = arg["t2"].key
  /\ res["t1"] = Some("x")
  /\ log = <<SetOp(arg["t2"].key, "x")>>
  /\ nops = 3

\* C22: the check a set or remove makes after its write sends the call into
\* compact exactly when redundant_size is above 1 MiB, and when a successful
\* set or remove is about to return while no other call is in progress,
\* redundant_size is at most 1 MiB.
\* This holds also for a store opened from a log whose replayed
\* redundant_size was above the limit.
CompactionThreshold ==
  [][\A t \in Threads :
       /\ NeedsCompaction(t) =>
            (pc'[t] = "cmp_lock" <=> redundant_size > REDUNDANT_SIZE_LIMIT)
       /\ (/\ pc'[t] = "ret" /\ arg'[t].op \in {"set", "rm"} /\ res'[t] = Ok
           /\ \A u \in Threads \ {t} : pc'[u] = "idle")
          => redundant_size' <= REDUNDANT_SIZE_LIMIT]_vars

\* open has replayed a log with more than 1 MiB of dead records, and the
\* first call on the store, a set, ran a compaction and is about to return.
CompactionThresholdWitness ==
  /\ replayed > REDUNDANT_SIZE_LIMIT
  /\ nops = 1
  /\ pc["t1"] = "ret" /\ arg["t1"].op = "set" /\ res["t1"] = Ok
  /\ pc["t2"] = "idle"
  /\ pre["t1"] # NoPre
  /\ redundant_size = 0

\* C23: a thread is inside compact, between its lock and its swap, only
\* while redundant_size is above the limit.
CompactOnlyAboveLimit ==
  \A t \in Threads :
    pc[t] \in {"cmp_read", "cmp_trunc", "cmp_write"}
      => redundant_size > REDUNDANT_SIZE_LIMIT

\* C30: when the write of the Rm record fails in remove(k), k is still in
\* the index, get(k) still returns a value, and a store opened again on the
\* directory returns the same for k as the running store.
RemoveFailureLeavesStore ==
  [][\A t \in Threads :
       RemoveWriteFail(t) =>
         LET k == arg[t].key
         IN /\ k \in DOMAIN index'
            /\ ReadResult(log', index', k)[1] = "Some"
            /\ Replay(log').ok
            /\ ReadResult(log', Replay(log').index, k)
                 = ReadResult(log', index', k)]_vars

\* C31: set, remove and get never panic with the mutex held: an I/O failure
\* is returned as an Err value, the mutex is never poisoned and no later call
\* on another handle panics when it locks.
NoPanicUnderLock ==
  /\ mutex # "poisoned"
  /\ \A t \in Threads : pc[t] # "panicked"

\* ------------------------------------------------------------------------
\* Worker pool: properties
\* ------------------------------------------------------------------------
\* C8: whatever the worker count, no job is run twice, and once drop has
\* returned every job passed to spawn has run exactly once and to its end,
\* and all workers have ended and been joined.
PoolRunsEveryJobOnce ==
  /\ \A j \in 1..MaxJobs : runs[j] <= 1
  /\ ppc = "dropped" =>
       /\ \A j \in 1..passed : runs[j] = 1 /\ j \in finished
       /\ \A w \in 1..threads : worker[w] = "exited"
       /\ joined = threads

TerminatesQueued ==
  Cardinality({i \in DOMAIN queue : queue[i].kind = "Terminate"})
Exited == {w \in 1..threads : worker[w] = "exited"}

\* The jobs that have begun and not ended, and the jobs passed to spawn that
\* have not begun.
RunningJobs == {j \in 1..MaxJobs : runs[j] > 0 /\ j \notin finished}
WaitingJobs == {j \in 1..passed : runs[j] = 0}

\* C33: a pool of n workers never has more than n jobs running at the same
\* time, however many are spawned; every job spawned and not yet begun waits
\* in the queue, and each running job is the job of a worker of its own.
AtMostNRunning ==
  /\ Cardinality(RunningJobs) <= threads
  /\ threads > 0 =>
       \A j \in WaitingJobs :
         \E i \in 1..Len(queue) : queue[i].kind = "Job" /\ queue[i].id = j
  /\ \A j \in RunningJobs :
       Cardinality({w \in 1..threads :
                      worker[w] = "running" /\ wjob[w].id = j}) = 1

\* Two workers, both running a job, and a third job waiting in the queue.
AtMostNRunningWitness ==
  /\ threads = 2
  /\ Cardinality(RunningJobs) = 2
  /\ WaitingJobs # {}
  /\ queue # <<>> /\ Head(queue).kind = "Job"

DecodeErrorClosesConnection ==
  /\ [][\A c \in Conns :
          /\ (JobRead(c) /\ inflight[c] # <<>> /\ Head(inflight[c]) = Garbage) =>
               /\ cstate'[c] = "closed"
               /\ out'[c] = out[c]
               /\ apc' = apc /\ backlog' = backlog /\ jobq' = jobq
               /\ store' = store
               /\ \A d \in Conns \ {c} :
                    /\ cstate'[d] = cstate[d] /\ jpc'[d] = jpc[d]
                    /\ inflight'[d] = inflight[d] /\ out'[d] = out[d]
          /\ cstate[c] = "closed" =>
               /\ cstate'[c] = "closed"
               /\ out'[c] = out[c]
               /\ nread'[c] = nread[c]]_vars
  /\ [](hpc = "held" => apc \in {"poll", "accept"})

\* c1 was closed by a decode error on its first document, with a document
\* left unread; c2, which connected after that, has been accepted and has
\* received a response.
DecodeErrorWitness ==
  /\ why["c1"] = "decode"
  /\ out["c1"] = <<>> /\ nread["c1"] = 1 /\ inflight["c1"] # <<>>
  /\ "c1" \in after["c2"]
  /\ cstate["c2"] = "running"
  /\ Len(out["c2"]) = 1
  /\ hpc = "held"

\* C11: when the engine returns an error for a decoded request, the job
\* builds the response Err(msg) with the id of that request and goes on to
\* write it; the write puts exactly that response on the stream and the job
\* goes back to the head of its loop with the connection still open; no job
\* ever ends because of an engine error.
EngineErrorAnswered ==
  /\ [][\A c \in Conns :
          /\ ((JobDispatch(c) /\ EngineResult(store, cur[c])[1] = "Err")
                  \/ JobDispatchFail(c)) =>
               /\ resp'[c].id = cur[c].id
               /\ resp'[c].response[1] = "Err"
               /\ cstate'[c] = "running" /\ jpc'[c] = "write"
               /\ out'[c] = out[c]
          /\ JobWrite(c) =>
               /\ out'[c] = Append(out[c], resp[c])
               /\ resp[c].id = cur[c].id
               /\ cstate'[c] = "running" /\ jpc'[c] = "poll"]_vars
  /\ [](\A c \in Conns : why[c] # "engine")

\* c1 got Err for its first request (a remove of a key never set), Err for
\* its second (an I/O failure of the engine) and a success for its third.
EngineErrorWitness ==
  /\ Len(out["c1"]) = 3
  /\ out["c1"][1] = NetErr(Request(1, "Rm"), "KeyNotFound")
  /\ out["c1"][2] = NetErr(Request(2, "Set"), "Io")
  /\ out["c1"][3] = NetSuccess(Request(3, "Get"), NoneOpt)
  /\ cstate["c1"] = "running"

\* C14: a connection job handles one request at a time in arrival order.
\* While it holds a request, that request is the document read last, all
\* requests before it are answered and no other is; when it is about to read,
\* every document read so far is answered; the j-th response on the stream
\* carries the id of the j-th request; a read takes the oldest document not
\* yet read, the engine is changed only by a job applying the request it
\* holds, and the response written is the one built from that request.
OneRequestAtATime ==
  /\ [](\A c \in Conns :
          /\ jpc[c] \in {"dispatch", "write"} =>
               /\ cur[c].id = nread[c]
               /\ Len(out[c]) = nread[c] - 1
          /\ jpc[c] = "write" => resp[c].id = cur[c].id
          /\ jpc[c] \in {"poll", "read"} =>
               /\ Len(out[c]) = nread[c]
               /\ cur[c] = NoRequest
          /\ \A j \in DOMAIN out[c] : out[c][j].id = j
          /\ \A i \in DOMAIN inflight[c] :
               inflight[c][i] # Garbage => inflight[c][i].id = nread[c] + i)
  /\ [][/\ \A c \in Conns :
            /\ nread'[c] # nread[c] =>
                 /\ nread'[c] = nread[c] + 1
                 /\ Len(out[c]) = nread[c]
                 /\ inflight'[c] = Tail(inflight[c])
                 /\ cur'[c] \in {Head(inflight[c]), NoRequest}
            /\ out'[c] # out[c] =>
                 /\ out'[c] = Append(out[c], resp[c])
                 /\ resp[c].id = cur[c].id
                 /\ Len(out'[c]) = nread[c]
        /\ store' # store =>
             \E c \in Conns : /\ jpc[c] = "dispatch" /\ jpc'[c] = "write"
                              /\ store' = EngineApply(store, cur[c])
                              /\ cur[c].id = Len(out[c]) + 1]_vars

\* c1 sent set, get, remove and has the three answers in that order: the get
\* saw the value set before it and the remove found the key.
OneRequestWitness ==
  /\ out["c1"] = << NetSuccess(Request(1, "Set"), NoneOpt),
                    NetSuccess(Request(2, "Get"), SomeOpt(ReqValue)),
                    NetSuccess(Request(3, "Rm"), NoneOpt) >>
  /\ store = EmptyMap
  /\ jpc["c1"] = "read"

\* C15, as stated: once the signal has been sent, no connection is accepted
\* and no connection job is spawned.
NoAcceptAfterSignal ==
  [][hpc = "joining" =>
       Len(backlog') >= Len(backlog) /\ Len(jobq') <= Len(jobq)]_vars

\* C15, amended: once the acceptor has taken the signal from the channel it
\* accepts no connection and spawns no job; between the sending of the
\* signal and that moment it accepts at most one connection (the accept that
\* follows a poll made before the signal was sent), and the poll after that
\* accept finds the signal.
AtMostOneAcceptAfterSignal ==
  /\ [](late <= 1)
  /\ [](apc = "poll" /\ late = 1 => shutdown_init > 0)
  /\ [][apc = "wait" =>
          /\ apc' = "wait"
          /\ late' = late
          /\ Len(backlog') >= Len(backlog)
          /\ Len(jobq') <= Len(jobq)]_vars

\* One connection was accepted after the signal had been sent, and the
\* acceptor has then left its loop.
AtMostOneAcceptWitness ==
  /\ late = 1
  /\ apc = "wait"
  /\ hpc = "joining"

\* C24: every connection job that was in progress when the acceptor
\* received the shutdown signal finds the cancellation at its next poll of
\* its stream_shutdown receiver, shuts down its socket and leaves its loop,
\* however many such jobs there are.
EveryJobObservesShutdown ==
  [][\A c \in Conns :
       (JobPoll(c) /\ c \in signalled) =>
         /\ cstate'[c] = "closed"
         /\ why'[c] = "shutdown"]_vars

\* C25: when the acceptor has left its loop and every connection job has
\* ended and dropped its sender, the acceptor's recv on the acknowledgement
\* channel returns, so the thread ends and the join in shutdown returns.
AcceptorEndsAfterJobs ==
  (/\ hpc = "joining"
   /\ apc = "wait"
   /\ \A c \in Conns : cstate[c] \notin {"queued", "running"})
  => RecvReturns

\* C26: while a connection job that the acceptor spawned onto a
\* RayonThreadPool is queued or running, the acceptor is in its loop, at
\* the poll of the shutdown signal or at accept: spawn has returned without
\* waiting for the job.
RayonSpawnReturnsAtOnce ==
  \A c \in Conns :
    cstate[c] \in {"queued", "running"} => apc \in {"poll", "accept", "wait"}

\* C32: dropping a ShutdownHandle on which shutdown was not called
\* terminates: once the drop has begun its join, the acceptor leaves its
\* loop, and the thread ends.
DropLeavesLoop == (hpc = "dropping") ~> (apc = "wait")

\* ------------------------------------------------------------------------
\* Client: properties
\* ------------------------------------------------------------------------
\* C12: the server answers a Get of an absent key with Success(None) and a
\* Rm of an absent key with Err, also over an engine whose I/O may fail; a
\* client call answered by the server alone returns Ok(None) for the first
\* and an error for the second.
AbsentKeyAnswers ==
  /\ [][((PeerServe \/ PeerServeFail) /\ ReqKey \notin DOMAIN remote) =>
          /\ Len(wire') = Len(wire) + 1
          /\ wire'[Len(wire')].doc.id = kreq.id
          /\ kreq.command = "Get" =>
               wire'[Len(wire')].doc.response = <<"Success", NoneOpt>>
          /\ kreq.command = "Rm" =>
               wire'[Len(wire')].doc.response[1] = "Err"]_vars
  /\ [](kpc = "done" /\ ans.server /\ ~ans.other /\ ans.absent =>
          /\ kreq.command = "Get" => kres = NoneRes
          /\ kreq.command = "Rm" => kres[1] = "Err")

\* The second call on a client, a remove of an absent key answered by the
\* server, has returned the error of the response.
AbsentKeyWitness ==
  /\ ncalls = 2 /\ kpc = "done"
  /\ kreq.command = "Rm" /\ kres = Err("KeyNotFound")
  /\ kgot = NetErr(kreq, "KeyNotFound")
  /\ ans = [server |-> TRUE, other |-> FALSE, absent |-> TRUE]

\* C13: a call that sent a request with id i returns a result built from a
\* response only if the response decoded has id i; when the response decoded
\* has another id, send_request returns no response and the call returns the
\* error "Invalid response", whatever the body of that response.
IdCorrelation ==
  /\ kpc = "read" => kdoc.id = kreq.id /\ kgot = kdoc
  /\ kpc = "done" /\ kdoc # NoResponse /\ kdoc.id # kreq.id =>
       kgot = NoResponse /\ kres = Err("Invalid response")
  /\ kpc = "done" /\ kres # Err("Invalid response") /\ kres # Err("Serde") =>
       /\ kdoc.id = kreq.id
       /\ kres = ClientResult(kreq.command, kdoc.response)
  /\ kpc = "done" /\ kdoc = NoResponse => kres = Err("Serde")

\* A get with id 1 read a response Success(Some(v)) with id 2 and returned
\* the error, not the value.
IdCorrelationWitness ==
  /\ kpc = "done"
  /\ kreq = Request(1, "Get")
  /\ kdoc = [id |-> 2, response |-> <<"Success", SomeOpt(ReqValue)>>]
  /\ kres = Err("Invalid response")

\* C28: the match of get / set / remove on the response send_request
\* returned gives Ok(Some(v)) to a get for Success(Some(v)) and Ok(None) for
\* Success(None), Ok(()) to a set or remove for either Success, and the
\* error carrying msg to every call for Err(msg).
ClientMapsResponse ==
  [][KMatch =>
       LET r == kgot.response
           cmd == kreq.command
       IN /\ r[1] \in {"Err", "Success"}
          /\ r[1] = "Err" => kres' = Err(r[2])
          /\ (r[1] = "Success" /\ cmd = "Get" /\ r[2] = NoneOpt)
               => kres' = NoneRes
          /\ (r[1] = "Success" /\ cmd = "Get" /\ r[2] # NoneOpt)
               => kres' = Some(r[2][1])
          /\ (r[1] = "Success" /\ cmd \in {"Set", "Rm"}) => kres' = Ok]_vars

\* A set has returned Ok(()) for a response Success(Some(v)).
ClientMapsWitness ==
  /\ kpc = "done"
  /\ kreq.command = "Set"
  /\ kgot = [id |-> kreq.id, response |-> <<"Success", SomeOpt(ReqValue)>>]
  /\ kres = Ok

\* C29: a call that the server alone has answered, with nothing else on the
\* connection, returns a result decoded from the whole response, and when
\* it returns no byte of a response is left unread or still to arrive.
ReadsWholeResponse ==
  (kpc = "done" /\ ans.server /\ ~ans.other) =>
    /\ kres # Err("Serde")
    /\ wire = <<>>
    /\ flight = <<>>

\* ------------------------------------------------------------------------
\* The single-handle store: properties
\* ------------------------------------------------------------------------
\* C34: with the store of lib.rs, as long as no compaction has run, a get
\* does not move the place where the next set or remove writes, a set or a
\* remove leaves the bytes already in the log as they are, every index entry
\* is the offset of a Set record of its key holding the last value set, and
\* get(k) returns the value of the last set(k) not followed by a remove(k).
LibGetsFollowCalls ==
  [][lcmp' = 0 =>
       /\ \A k \in Keys : LibGet(k) => lpos' = lpos
       /\ Take(lfile', LibFileLen(lfile)) = lfile
       /\ \A k \in DOMAIN lindex' :
            /\ k \in DOMAIN labs'
            /\ LibDecodeAt(lfile', lindex'[k]) = SetOp(k, labs'[k])
       /\ \A k \in Keys :
            LibGetResult(lfile', lindex', k) = AbsResult(labs', GetOf(k))]_vars

\* C35: when the compaction of lib.rs has run, get returns for every key
\* what it returned when the compaction began, the next set or remove writes
\* directly behind the rewritten records, and the count of operations is 0
\* again.
LibCompactionKeeps ==
  [][lcmp' > lcmp =>
       /\ \A k \in Keys : LibGetResult(lfile', lindex', k) = lpre'[k]
       /\ lpos' = LibFileLen(lfile')
       /\ uncmp' = 0]_vars

====
